---- MODULE Spec2Model ----
(***************************************************************************)
(* The in-memory event store of external-events-template: EventService     *)
(* (http/events.go, grpc/events.go).  One goroutine per in-flight request; *)
(* the shared state is the slice `stored` guarded by the RWMutex `mu` and  *)
(* the three atomic counters, which are updated outside the mutex.         *)
(*                                                                         *)
(* Spec     requests served concurrently (publish, list, stats, clear).    *)
(* SeqSpec  one client issuing one request after another, over more        *)
(*          tenants, batch sizes and limit strings.                        *)
(* SnapSpec holders of a list or StoredEvents result beside ingests and    *)
(*          clears, with the backing array of the window kept cell by cell.*)
(***************************************************************************)
EXTENDS Integers, Sequences, FiniteSets, TLC

\* maxStoredEvents is 10000 in the source; the model keeps the constant's
\* role (the trim threshold of store) at a size TLC can fill and overflow.
maxStoredEvents == 3
\* limit := 100 in HandleListEvents
DefaultLimit == 100
\* http.StatusOK, http.StatusBadRequest, http.StatusNoContent
StatusOK == 200
StatusBadRequest == 400
StatusNoContent == 204
\* make([]UsageEvent, 0, 1024) in NewEventService: the capacity the window
\* starts with, below maxStoredEvents as in the source and scaled with it.
initialCap == 2

\* Bounds of the model.
NumProcs == 3
MaxOps == 3
MaxPerKind == 1

Procs == 1..NumProcs

VARIABLES
    stored,         \* s.stored: the retained window, oldest first
    arr,            \* the backing array of s.stored, every cell of it
    base,           \* s.stored begins at cell base + 1 of arr
    writer,         \* s.mu: the goroutine holding the write lock, if any (a set of at most one)
    readers,        \* s.mu: goroutines holding the read lock
    totalReceived,  \* s.totalReceived (atomic.Int64)
    totalAllowed,   \* s.totalAllowed  (atomic.Int64)
    totalDenied,    \* s.totalDenied   (atomic.Int64)
    pc,             \* position of each goroutine inside its handler
    local,          \* the handler's local variables
    opsStarted,     \* number of requests started so far
    sizes,          \* history: the lengths of the batches appended so far, in append order
    log,            \* history: the batches as sent, in write-lock grant order since the last clear
    clearRan,       \* history: some clear request has started
    seen            \* history: store states that existed during a running stats call

vars == <<stored, arr, base, writer, readers, totalReceived, totalAllowed, totalDenied,
          pc, local, opsStarted, log, sizes, clearRan, seen>>

shared == <<stored, arr, base, writer, readers, totalReceived, totalAllowed, totalDenied>>

----------------------------------------------------------------------------
\* Helpers on sequences.

Min(a, b) == IF a < b THEN a ELSE b

Reverse(s) == [i \in 1..Len(s) |-> s[Len(s) + 1 - i]]

LastN(s, n) == SubSeq(s, Len(s) - Min(n, Len(s)) + 1, Len(s))

IsSuffix(t, s) == Len(t) <= Len(s) /\ t = LastN(s, Len(t))

SeqsUpTo(S, n) == UNION {[1..k -> S] : k \in 0..n}

----------------------------------------------------------------------------
\* Event records.  A UsageEvent carries the fields the store looks at
\* (Allowed, TenantKey) and an identity (batch, idx) standing for the opaque
\* payload (key, request_id, timestamp, ...) that the store only copies.
\* TenantKey is *string in the HTTP variant: <<>> is nil, <<t>> points to t.

AllowedEvent == [allowed |-> TRUE,  tenant |-> <<"t1">>]
DeniedEvent  == [allowed |-> FALSE, tenant |-> <<>>]

\* The request bodies of the tests: makeEvents(allowed, denied) is `allowed`
\* allowed events followed by `denied` denied events.
makeEvents(allowed, denied) ==
    [i \in 1..(allowed + denied) |-> IF i <= allowed THEN AllowedEvent ELSE DeniedEvent]

BatchInputs == {makeEvents(a, d) : a \in 0..MaxPerKind, d \in 0..MaxPerKind}

\* History only: the records of the id-th batch appended are named (id, i),
\* standing for the opaque payload that tells two records apart.
Tag(id, batch) ==
    [i \in 1..Len(batch) |-> batch[i] @@ [batch |-> id, idx |-> i]]

\* The loop of HandlePublishEvents that classifies the batch.

\* A classification that counts every record as allowed.
CountAllowed_Every(batch) == Len(batch)

\* A classification that counts every record as denied.
CountDenied_Every(batch) == Len(batch)

CountAllowed(batch) == Cardinality({i \in 1..Len(batch) : batch[i].allowed})
CountDenied(batch) == Cardinality({i \in 1..Len(batch) : ~batch[i].allowed})

----------------------------------------------------------------------------
\* A counter update that stores the batch's amount instead of adding it.
AtomicAdd_AsStore(counter, delta) == delta

\* A counter that follows the window: it stops at maxStoredEvents.
AtomicAdd_Capped(counter, delta) == Min(counter + delta, maxStoredEvents)

\* atomic.Int64.Add
AtomicAdd(counter, delta) == counter + delta

\* store: the two statements executed under the write lock.

\* An append that pushes the batch's records in reverse.
AppendBatch_Reversed(s, batch) == s \o Reverse(batch)

AppendBatch(s, batch) == s \o batch

\* A store that never trims.
TrimToMax_NoTrim(s) == s

\* A trim that keeps the oldest maxStoredEvents records (s.stored[:maxStoredEvents]).
TrimToMax_KeepOldest(s) ==
    IF Len(s) > maxStoredEvents THEN SubSeq(s, 1, maxStoredEvents) ELSE s

\* A trim whose excess is one too large.
TrimToMax_OffByOne(s) ==
    IF Len(s) > maxStoredEvents
    THEN LET excess == Len(s) - maxStoredEvents + 1
         IN  SubSeq(s, excess + 1, Len(s))
    ELSE s

TrimToMax(s) ==
    IF Len(s) > maxStoredEvents
    THEN LET excess == Len(s) - maxStoredEvents
         IN  SubSeq(s, excess + 1, Len(s))
    ELSE s

----------------------------------------------------------------------------
\* Slices.  s.stored is a view of its backing array: append writes into the
\* array while the capacity lasts and moves the window to a larger array when
\* it does not; s.stored[excess:] and s.stored[:0] move the view over the same
\* array.  A record a handler hands out is either a copy of a cell's value or a
\* pointer to the cell.

\* The zero UsageEvent of a cell never written.
ZeroEvent == [batch |-> 0, idx |-> 0, allowed |-> FALSE, tenant |-> <<>>]

Zeros(n) == [i \in 1..n |-> ZeroEvent]

\* cap(s.stored)
SliceCap(a, b) == Len(a) - b

\* append: the capacity of the array a slice of capacity oldCap moves to
\* (runtime.growslice for small slices: double, or the needed length if larger).
GrowCap(oldCap, newLen) == IF newLen > 2 * oldCap THEN newLen ELSE 2 * oldCap

\* append: the new length fits in the capacity left.
AppendFits(a, b, newLen) == newLen <= SliceCap(a, b)

\* append: the backing array and the window's offset in it afterwards, s
\* being the window's contents after the append.
AppendArray(a, b, s) ==
    IF AppendFits(a, b, Len(s))
    THEN [i \in 1..Len(a) |-> IF i > b /\ i <= b + Len(s) THEN s[i - b] ELSE a[i]]
    ELSE s \o Zeros(GrowCap(SliceCap(a, b), Len(s)) - Len(s))

AppendBase(a, b, s) == IF AppendFits(a, b, Len(s)) THEN b ELSE 0

\* A handler that keeps a pointer to the cell instead of the cell's value.
ElemCopy_Pointer(s, i) == [ref |-> TRUE, cell |-> base + i]

\* ev := s.stored[i]; append(result, ev) -- copy(out, s.stored): the
\* record handed out is a copy of the cell's value.
ElemCopy(s, i) == [ref |-> FALSE, val |-> s[i]]

\* What a handed-out record reads as now.
Deref(e) == IF e.ref THEN arr[e.cell] ELSE e.val

Values(elems) == [j \in 1..Len(elems) |-> Deref(elems[j])]

\* When append moves the window to a new array the old array is written no
\* more: a pointer into it reads the same value from then on.
Detached(l) ==
    IF l.op = "list"
    THEN [l EXCEPT !.result = [j \in 1..Len(l.result) |-> [ref |-> FALSE, val |-> Deref(l.result[j])]]]
    ELSE IF l.op = "storedEvents"
    THEN [l EXCEPT !.out = [j \in 1..Len(l.out) |-> [ref |-> FALSE, val |-> Deref(l.out[j])]]]
    ELSE l

----------------------------------------------------------------------------
\* HandleListEvents: limit parsing and the newest-first scan.

Digits == <<"0", "1", "2", "3", "4", "5", "6", "7", "8", "9">>
IsDigit(c) == \E d \in 1..10 : Digits[d] = c
DigitVal(c) == (CHOOSE d \in 1..10 : Digits[d] = c) - 1

RECURSIVE DigitsVal(_, _)
DigitsVal(str, acc) ==
    IF str = <<>> THEN acc
    ELSE DigitsVal(Tail(str), acc * 10 + DigitVal(Head(str)))

\* The decimal digits of math.MaxInt64 (9223372036854775807): int is 64 bits wide.
MaxIntDigits == <<"9", "2", "2", "3", "3", "7", "2", "0", "3", "6",
                  "8", "5", "4", "7", "7", "5", "8", "0", "7">>

RECURSIVE StripZeros(_)
StripZeros(str) ==
    IF Len(str) > 1 /\ Head(str) = "0" THEN StripZeros(Tail(str)) ELSE str

\* a > b for two digit strings of the same length
RECURSIVE DigitsGreater(_, _)
DigitsGreater(a, b) ==
    IF a = <<>> THEN FALSE
    ELSE IF Head(a) # Head(b) THEN DigitVal(Head(a)) > DigitVal(Head(b))
    ELSE DigitsGreater(Tail(a), Tail(b))

\* The magnitude does not fit in an int: strconv reports ErrRange.  (The
\* magnitude of the most negative int is one more than MaxInt; no input of the
\* model sits on that edge.)
OutOfRange(body) ==
    LET sig == StripZeros(body)
    IN  \/ Len(sig) > Len(MaxIntDigits)
        \/ Len(sig) = Len(MaxIntDigits) /\ DigitsGreater(sig, MaxIntDigits)

\* strconv.Atoi on a string given as its sequence of characters: an optional
\* sign followed by one or more digits that fit in an int; anything else is an
\* error (the value returned with an error is not used by the caller).
Atoi(str) ==
    LET body == IF str # <<>> /\ Head(str) \in {"+", "-"} THEN Tail(str) ELSE str
        neg  == str # <<>> /\ Head(str) = "-"
    IN  IF body = <<>> \/ \E i \in 1..Len(body) : ~IsDigit(body[i])
        THEN [err |-> TRUE, n |-> 0]
        ELSE IF OutOfRange(body)
        THEN [err |-> TRUE, n |-> 0]
        ELSE [err |-> FALSE,
              n |-> IF neg THEN 0 - DigitsVal(body, 0) ELSE DigitsVal(body, 0)]

\* A normalisation that forgets the n > 0 test.
ParseLimit_AnyNumber(limitStr) ==
    IF limitStr # <<>>
    THEN LET r == Atoi(limitStr)
         IN  IF ~r.err THEN r.n ELSE DefaultLimit
    ELSE DefaultLimit

ParseLimit(limitStr) ==
    IF limitStr # <<>>
    THEN LET r == Atoi(limitStr)
         IN  IF ~r.err /\ r.n > 0 THEN r.n ELSE DefaultLimit
    ELSE DefaultLimit

TenantOf(ev) == IF ev.tenant = <<>> THEN "" ELSE ev.tenant[1]

\* A scan that lets records without a tenant through every filter.
RECURSIVE ListLoop_NilPasses(_, _, _, _, _)
ListLoop_NilPasses(s, i, result, tenantFilter, limit) ==
    IF i >= 1 /\ Len(result) < limit
    THEN IF tenantFilter # "" /\ s[i].tenant # <<>> /\ s[i].tenant[1] # tenantFilter
         THEN ListLoop_NilPasses(s, i - 1, result, tenantFilter, limit)
         ELSE ListLoop_NilPasses(s, i - 1, Append(result, ElemCopy(s, i)), tenantFilter, limit)
    ELSE result

\* A scan that matches records against the empty filter too.
RECURSIVE ListLoop_EmptyMatches(_, _, _, _, _)
ListLoop_EmptyMatches(s, i, result, tenantFilter, limit) ==
    IF i >= 1 /\ Len(result) < limit
    THEN IF TenantOf(s[i]) # tenantFilter
         THEN ListLoop_EmptyMatches(s, i - 1, result, tenantFilter, limit)
         ELSE ListLoop_EmptyMatches(s, i - 1, Append(result, ElemCopy(s, i)), tenantFilter, limit)
    ELSE result

RECURSIVE ListLoop(_, _, _, _, _)
ListLoop(s, i, result, tenantFilter, limit) ==
    IF i >= 1 /\ Len(result) < limit
    THEN IF tenantFilter # "" /\ TenantOf(s[i]) # tenantFilter
         THEN ListLoop(s, i - 1, result, tenantFilter, limit)
         ELSE ListLoop(s, i - 1, Append(result, ElemCopy(s, i)), tenantFilter, limit)
    ELSE result

\* A scan that walks the window from its oldest record.
ListEvents_OldestFirst(s, tenantFilter, limit) ==
    Reverse(ListLoop(Reverse(s), Len(s), <<>>, tenantFilter, limit))

ListEvents(s, tenantFilter, limit) == ListLoop(s, Len(s), <<>>, tenantFilter, limit)

----------------------------------------------------------------------------
\* Initial state: NewEventService, every goroutine outside any handler.

Idle == [op |-> "none"]

Snap == <<totalReceived, totalAllowed, totalDenied, Len(stored)>>

StatsLabels == {"stats_rlock", "stats_len", "stats_runlock", "stats_loadReceived",
                "stats_loadAllowed", "stats_loadDenied", "stats_respond"}

\* History only: the store states that existed while a stats call was running,
\* from the state it was invoked in up to the state it responds in.
Observe ==
    seen' = [q \in Procs |->
                IF pc'[q] \in StatsLabels
                THEN (IF pc[q] \in StatsLabels THEN seen[q] ELSE {Snap}) \cup {Snap'}
                ELSE {}]

Init ==
    /\ stored = <<>>
    /\ arr = Zeros(initialCap)
    /\ base = 0
    /\ writer = {}
    /\ readers = {}
    /\ totalReceived = 0
    /\ totalAllowed = 0
    /\ totalDenied = 0
    /\ pc = [p \in Procs |-> "idle"]
    /\ local = [p \in Procs |-> Idle]
    /\ opsStarted = 0
    /\ log = <<>>
    /\ sizes = <<>>
    /\ clearRan = FALSE
    /\ seen = [p \in Procs |-> {}]

Goto(p, label) == pc' = [pc EXCEPT ![p] = label]

\* A request is served by a fresh goroutine; the model names it by the lowest
\* free slot, so that runs differing only in goroutine names coincide.
CanStartWithin(p, maxOps) ==
    /\ pc[p] = "idle"
    /\ \A q \in Procs : q < p => pc[q] # "idle"
    /\ opsStarted < maxOps

CanStart(p) == CanStartWithin(p, MaxOps)

----------------------------------------------------------------------------
\* HandlePublishEvents / PublishEvents

\* The body does not decode: the handler goes straight to its 400 response.
PublishBadBodyWithin(p, maxOps) ==
    /\ CanStartWithin(p, maxOps)
    /\ local' = [local EXCEPT ![p] = [op |-> "publish_invalid"]]
    /\ opsStarted' = opsStarted + 1
    /\ Goto(p, "pub_reject")
    /\ UNCHANGED <<shared, log, sizes, clearRan>>
    /\ Observe

PublishBadBody(p) == PublishBadBodyWithin(p, MaxOps)

\* A rejection that still counts the request as received.
PublishReject_Counted(p) ==
    /\ pc[p] = "pub_reject"
    /\ totalReceived' = totalReceived + 1
    /\ local' = [local EXCEPT ![p] = Idle]
    /\ Goto(p, "idle")
    /\ UNCHANGED <<stored, arr, base, writer, readers, totalAllowed, totalDenied,
                   opsStarted, log, sizes, clearRan>>
    /\ Observe

\* writeJSON(w, http.StatusBadRequest, errorResponse{...}); return
PublishReject(p) ==
    /\ pc[p] = "pub_reject"
    /\ local' = [local EXCEPT ![p] = Idle]
    /\ Goto(p, "idle")
    /\ UNCHANGED <<shared, opsStarted, log, sizes, clearRan>>
    /\ Observe

\* The body decodes to a batch; count, allowed and denied are computed.
PublishStartWithin(p, maxOps, batches) ==
    /\ CanStartWithin(p, maxOps)
    /\ \E batch \in batches :
          local' = [local EXCEPT ![p] =
                      [op |-> "publish", sent |-> batch, batch |-> batch,
                       count |-> Len(batch),
                       allowed |-> CountAllowed(batch), denied |-> CountDenied(batch)]]
    /\ opsStarted' = opsStarted + 1
    /\ Goto(p, "store_lock")
    /\ UNCHANGED <<shared, log, sizes, clearRan>>
    /\ Observe

PublishStart(p) == PublishStartWithin(p, MaxOps, BatchInputs)

\* The caller of the request of p has cancelled or abandoned it.
Cancelled(p) == "cancelled" \in DOMAIN local[p]

\* An ingest that consults its context before it stores and gives up when
\* the caller is gone.
StoreLock_CtxChecked(p) ==
    /\ pc[p] = "store_lock"
    /\ IF Cancelled(p)
       THEN /\ local' = [local EXCEPT ![p] = Idle]
            /\ Goto(p, "idle")
            /\ UNCHANGED <<shared, opsStarted, log, sizes, clearRan>>
       ELSE /\ writer = {} /\ readers = {}
            /\ writer' = {p}
            /\ Goto(p, "store_append")
            /\ UNCHANGED <<stored, arr, base, readers, totalReceived, totalAllowed,
                           totalDenied, local, opsStarted, log, sizes, clearRan>>
    /\ Observe

\* store: s.mu.Lock()
StoreLock(p) ==
    /\ pc[p] = "store_lock"
    /\ writer = {} /\ readers = {}
    /\ writer' = {p}
    /\ Goto(p, "store_append")
    /\ UNCHANGED <<stored, arr, base, readers, totalReceived, totalAllowed, totalDenied,
                   local, opsStarted, log, sizes, clearRan>>
    /\ Observe

\* store: s.stored = append(s.stored, batch...)
StoreAppend(p) ==
    /\ pc[p] = "store_append"
    /\ stored' = AppendBatch(stored, Tag(Len(sizes) + 1, local[p].batch))
    /\ arr' = AppendArray(arr, base, stored')
    /\ base' = AppendBase(arr, base, stored')
    /\ local' = IF AppendFits(arr, base, Len(stored'))
                THEN local
                ELSE [q \in Procs |-> Detached(local[q])]
    /\ log' = log \o Tag(Len(sizes) + 1, local[p].sent)
    /\ sizes' = Append(sizes, Len(local[p].batch))
    /\ Goto(p, "store_trim")
    /\ UNCHANGED <<writer, readers, totalReceived, totalAllowed, totalDenied,
                   opsStarted, clearRan>>
    /\ Observe

\* A trim that takes the evicted records off totalReceived.
StoreTrim_Discounting(p) ==
    /\ pc[p] = "store_trim"
    /\ stored' = TrimToMax(stored)
    /\ base' = base + (Len(stored) - Len(stored'))
    /\ totalReceived' = totalReceived - (Len(stored) - Len(stored'))
    /\ UNCHANGED arr
    /\ Goto(p, "store_unlock")
    /\ UNCHANGED <<writer, readers, totalAllowed, totalDenied,
                   local, opsStarted, log, sizes, clearRan>>
    /\ Observe

\* store: if len(s.stored) > maxStoredEvents { s.stored = s.stored[excess:] }
StoreTrim(p) ==
    /\ pc[p] = "store_trim"
    /\ stored' = TrimToMax(stored)
    /\ base' = base + (Len(stored) - Len(stored'))
    /\ UNCHANGED arr
    /\ Goto(p, "store_unlock")
    /\ UNCHANGED <<writer, readers, totalReceived, totalAllowed, totalDenied,
                   local, opsStarted, log, sizes, clearRan>>
    /\ Observe

\* A leaked write lock: store returns without s.mu.Unlock().
StoreUnlock_Leaked(p) ==
    /\ pc[p] = "store_unlock"
    /\ Goto(p, "pub_addReceived")
    /\ UNCHANGED <<shared, local, opsStarted, log, sizes, clearRan>>
    /\ Observe

\* store: defer s.mu.Unlock()
StoreUnlock(p) ==
    /\ pc[p] = "store_unlock"
    /\ writer' = {}
    /\ Goto(p, "pub_addReceived")
    /\ UNCHANGED <<stored, arr, base, readers, totalReceived, totalAllowed, totalDenied,
                   local, opsStarted, log, sizes, clearRan>>
    /\ Observe

\* s.totalReceived.Add(count)
PublishAddReceived(p) ==
    /\ pc[p] = "pub_addReceived"
    /\ totalReceived' = AtomicAdd(totalReceived, local[p].count)
    /\ Goto(p, "pub_addAllowed")
    /\ UNCHANGED <<stored, arr, base, writer, readers, totalAllowed, totalDenied,
                   local, opsStarted, log, sizes, clearRan>>
    /\ Observe

\* s.totalAllowed.Add(allowed)
PublishAddAllowed(p) ==
    /\ pc[p] = "pub_addAllowed"
    /\ totalAllowed' = AtomicAdd(totalAllowed, local[p].allowed)
    /\ Goto(p, "pub_addDenied")
    /\ UNCHANGED <<stored, arr, base, writer, readers, totalReceived, totalDenied,
                   local, opsStarted, log, sizes, clearRan>>
    /\ Observe

\* s.totalDenied.Add(denied)
PublishAddDenied(p) ==
    /\ pc[p] = "pub_addDenied"
    /\ totalDenied' = AtomicAdd(totalDenied, local[p].denied)
    /\ Goto(p, "pub_respond")
    /\ UNCHANGED <<stored, arr, base, writer, readers, totalReceived, totalAllowed,
                   local, opsStarted, log, sizes, clearRan>>
    /\ Observe

\* writeJSON(w, http.StatusOK, Accepted(len(req.Events)))
PublishRespond(p) ==
    /\ pc[p] = "pub_respond"
    /\ local' = [local EXCEPT ![p] = Idle]
    /\ Goto(p, "idle")
    /\ UNCHANGED <<shared, opsStarted, log, sizes, clearRan>>
    /\ Observe

----------------------------------------------------------------------------
\* HandleListEvents

TenantFilterInputs == {"", "t1"}
LimitStrInputs == {<<>>, <<"1">>}

\* Query parameters are read and the limit is normalised.
ListStartWithin(p, maxOps, tenantFilters, limitStrs) ==
    /\ CanStartWithin(p, maxOps)
    /\ \E tenantFilter \in tenantFilters, limitStr \in limitStrs :
          local' = [local EXCEPT ![p] =
                      [op |-> "list", tenantFilter |-> tenantFilter,
                       limitStr |-> limitStr, limit |-> ParseLimit(limitStr),
                       result |-> <<>>]]
    /\ opsStarted' = opsStarted + 1
    /\ Goto(p, "list_rlock")
    /\ UNCHANGED <<shared, log, sizes, clearRan>>
    /\ Observe

ListStart(p) == ListStartWithin(p, MaxOps, TenantFilterInputs, LimitStrInputs)

\* s.mu.RLock()
ListRLock(p) ==
    /\ pc[p] = "list_rlock"
    /\ writer = {}
    /\ readers' = readers \cup {p}
    /\ Goto(p, "list_scan")
    /\ UNCHANGED <<stored, arr, base, writer, totalReceived, totalAllowed, totalDenied,
                   local, opsStarted, log, sizes, clearRan>>
    /\ Observe

\* The loop from the newest record down, copying matching records.
ListScan(p) ==
    /\ pc[p] = "list_scan"
    /\ local' = [local EXCEPT ![p].result =
                    ListEvents(stored, local[p].tenantFilter, local[p].limit)]
    /\ Goto(p, "list_runlock")
    /\ UNCHANGED <<shared, opsStarted, log, sizes, clearRan>>
    /\ Observe

\* s.mu.RUnlock()
\* A release deferred to the return of the handler: the response is written
\* with the read lock held.
ListRUnlock_Deferred(p) ==
    /\ pc[p] = "list_runlock"
    /\ Goto(p, "list_respond")
    /\ UNCHANGED <<shared, local, opsStarted, log, sizes, clearRan>>
    /\ Observe

ListRUnlock(p) ==
    /\ pc[p] = "list_runlock"
    /\ readers' = readers \ {p}
    /\ Goto(p, "list_respond")
    /\ UNCHANGED <<stored, arr, base, writer, totalReceived, totalAllowed, totalDenied,
                   local, opsStarted, log, sizes, clearRan>>
    /\ Observe

\* writeJSON(w, http.StatusOK, result)
ListRespond(p) ==
    /\ pc[p] = "list_respond"
    /\ local' = [local EXCEPT ![p] = Idle]
    /\ Goto(p, "idle")
    /\ UNCHANGED <<shared, opsStarted, log, sizes, clearRan>>
    /\ Observe

----------------------------------------------------------------------------
\* HandleStats

StatsStartWithin(p, maxOps) ==
    /\ CanStartWithin(p, maxOps)
    /\ local' = [local EXCEPT ![p] =
                    [op |-> "stats", n |-> 0, received |-> 0, allowed |-> 0, denied |-> 0]]
    /\ opsStarted' = opsStarted + 1
    /\ Goto(p, "stats_rlock")
    /\ UNCHANGED <<shared, log, sizes, clearRan>>
    /\ Observe

StatsStart(p) == StatsStartWithin(p, MaxOps)

\* s.mu.RLock()
StatsRLock(p) ==
    /\ pc[p] = "stats_rlock"
    /\ writer = {}
    /\ readers' = readers \cup {p}
    /\ Goto(p, "stats_len")
    /\ UNCHANGED <<stored, arr, base, writer, totalReceived, totalAllowed, totalDenied,
                   local, opsStarted, log, sizes, clearRan>>
    /\ Observe

\* n := len(s.stored)
StatsLen(p) ==
    /\ pc[p] = "stats_len"
    /\ local' = [local EXCEPT ![p].n = Len(stored)]
    /\ Goto(p, "stats_runlock")
    /\ UNCHANGED <<shared, opsStarted, log, sizes, clearRan>>
    /\ Observe

\* s.mu.RUnlock()
StatsRUnlock(p) ==
    /\ pc[p] = "stats_runlock"
    /\ readers' = readers \ {p}
    /\ Goto(p, "stats_loadReceived")
    /\ UNCHANGED <<stored, arr, base, writer, totalReceived, totalAllowed, totalDenied,
                   local, opsStarted, log, sizes, clearRan>>
    /\ Observe

\* A stats that reads a counter and resets it: s.totalReceived.Swap(0).
StatsLoadReceived_Swap(p) ==
    /\ pc[p] = "stats_loadReceived"
    /\ local' = [local EXCEPT ![p].received = totalReceived]
    /\ totalReceived' = 0
    /\ Goto(p, "stats_loadAllowed")
    /\ UNCHANGED <<stored, arr, base, writer, readers, totalAllowed, totalDenied,
                   opsStarted, log, sizes, clearRan>>
    /\ Observe

\* A stats that reports the length of the window as the received total.
StatsLoadReceived_FromWindow(p) ==
    /\ pc[p] = "stats_loadReceived"
    /\ local' = [local EXCEPT ![p].received = Len(stored)]
    /\ Goto(p, "stats_loadAllowed")
    /\ UNCHANGED <<shared, opsStarted, log, sizes, clearRan>>
    /\ Observe

\* TotalReceived: s.totalReceived.Load()
StatsLoadReceived(p) ==
    /\ pc[p] = "stats_loadReceived"
    /\ local' = [local EXCEPT ![p].received = totalReceived]
    /\ Goto(p, "stats_loadAllowed")
    /\ UNCHANGED <<shared, opsStarted, log, sizes, clearRan>>
    /\ Observe

\* TotalAllowed: s.totalAllowed.Load()
StatsLoadAllowed(p) ==
    /\ pc[p] = "stats_loadAllowed"
    /\ local' = [local EXCEPT ![p].allowed = totalAllowed]
    /\ Goto(p, "stats_loadDenied")
    /\ UNCHANGED <<shared, opsStarted, log, sizes, clearRan>>
    /\ Observe

\* TotalDenied: s.totalDenied.Load()
StatsLoadDenied(p) ==
    /\ pc[p] = "stats_loadDenied"
    /\ local' = [local EXCEPT ![p].denied = totalDenied]
    /\ Goto(p, "stats_respond")
    /\ UNCHANGED <<shared, opsStarted, log, sizes, clearRan>>
    /\ Observe

\* writeJSON(w, http.StatusOK, EventStats{...})
StatsRespond(p) ==
    /\ pc[p] = "stats_respond"
    /\ local' = [local EXCEPT ![p] = Idle]
    /\ Goto(p, "idle")
    /\ UNCHANGED <<shared, opsStarted, log, sizes, clearRan>>
    /\ Observe

----------------------------------------------------------------------------
\* HandleClearEvents

ClearStartWithin(p, maxOps) ==
    /\ CanStartWithin(p, maxOps)
    /\ local' = [local EXCEPT ![p] = [op |-> "clear"]]
    /\ opsStarted' = opsStarted + 1
    /\ clearRan' = TRUE
    /\ Goto(p, "clear_lock")
    /\ UNCHANGED <<shared, log, sizes>>
    /\ Observe

ClearStart(p) == ClearStartWithin(p, MaxOps)

\* s.mu.Lock()
ClearLock(p) ==
    /\ pc[p] = "clear_lock"
    /\ writer = {} /\ readers = {}
    /\ writer' = {p}
    /\ Goto(p, "clear_truncate")
    /\ UNCHANGED <<stored, arr, base, readers, totalReceived, totalAllowed, totalDenied,
                   local, opsStarted, log, sizes, clearRan>>
    /\ Observe

\* s.stored = s.stored[:0]
ClearTruncate(p) ==
    /\ pc[p] = "clear_truncate"
    /\ stored' = <<>>
    /\ UNCHANGED <<arr, base>>
    /\ log' = <<>>
    /\ Goto(p, "clear_unlock")
    /\ UNCHANGED <<writer, readers, totalReceived, totalAllowed, totalDenied,
                   local, opsStarted, sizes, clearRan>>
    /\ Observe

\* s.mu.Unlock()
ClearUnlock(p) ==
    /\ pc[p] = "clear_unlock"
    /\ writer' = {}
    /\ Goto(p, "clear_storeReceived")
    /\ UNCHANGED <<stored, arr, base, readers, totalReceived, totalAllowed, totalDenied,
                   local, opsStarted, log, sizes, clearRan>>
    /\ Observe

\* s.totalReceived.Store(0)
ClearStoreReceived(p) ==
    /\ pc[p] = "clear_storeReceived"
    /\ totalReceived' = 0
    /\ Goto(p, "clear_storeAllowed")
    /\ UNCHANGED <<stored, arr, base, writer, readers, totalAllowed, totalDenied,
                   local, opsStarted, log, sizes, clearRan>>
    /\ Observe

\* s.totalAllowed.Store(0)
ClearStoreAllowed(p) ==
    /\ pc[p] = "clear_storeAllowed"
    /\ totalAllowed' = 0
    /\ Goto(p, "clear_storeDenied")
    /\ UNCHANGED <<stored, arr, base, writer, readers, totalReceived, totalDenied,
                   local, opsStarted, log, sizes, clearRan>>
    /\ Observe

\* A clear that forgets the third counter.
ClearStoreDenied_Skipped(p) ==
    /\ pc[p] = "clear_storeDenied"
    /\ Goto(p, "clear_respond")
    /\ UNCHANGED <<shared, local, opsStarted, log, sizes, clearRan>>
    /\ Observe

\* s.totalDenied.Store(0)
ClearStoreDenied(p) ==
    /\ pc[p] = "clear_storeDenied"
    /\ totalDenied' = 0
    /\ Goto(p, "clear_respond")
    /\ UNCHANGED <<stored, arr, base, writer, readers, totalReceived, totalAllowed,
                   local, opsStarted, log, sizes, clearRan>>
    /\ Observe

\* w.WriteHeader(http.StatusNoContent)
ClearRespond(p) ==
    /\ pc[p] = "clear_respond"
    /\ local' = [local EXCEPT ![p] = Idle]
    /\ Goto(p, "idle")
    /\ UNCHANGED <<shared, opsStarted, log, sizes, clearRan>>
    /\ Observe

----------------------------------------------------------------------------
Next ==
    \E p \in Procs :
        \/ PublishBadBody(p)
        \/ PublishReject(p)
        \/ PublishStart(p)
        \/ StoreLock(p)
        \/ StoreAppend(p)
        \/ StoreTrim(p)
        \/ StoreUnlock(p)
        \/ PublishAddReceived(p)
        \/ PublishAddAllowed(p)
        \/ PublishAddDenied(p)
        \/ PublishRespond(p)
        \/ ListStart(p)
        \/ ListRLock(p)
        \/ ListScan(p)
        \/ ListRUnlock(p)
        \/ ListRespond(p)
        \/ StatsStart(p)
        \/ StatsRLock(p)
        \/ StatsLen(p)
        \/ StatsRUnlock(p)
        \/ StatsLoadReceived(p)
        \/ StatsLoadAllowed(p)
        \/ StatsLoadDenied(p)
        \/ StatsRespond(p)
        \/ ClearStart(p)
        \/ ClearLock(p)
        \/ ClearTruncate(p)
        \/ ClearUnlock(p)
        \/ ClearStoreReceived(p)
        \/ ClearStoreAllowed(p)
        \/ ClearStoreDenied(p)
        \/ ClearRespond(p)

Spec == Init /\ [][Next]_vars

----------------------------------------------------------------------------
\* Sequential execution: a single client issues one request after another,
\* each handler running to its response before the next request starts.  The
\* handlers are the ones above; the requests range over more tenants, batch
\* sizes and limit strings than the concurrent runs can afford.

SeqMaxOps == 4

SeqProcs == {1}

\* TenantKey values: nil, pointer to "", pointers to two different tenants.
SeqTenantInputs == {<<>>, <<"">>, <<"t1">>, <<"t2">>}

WithTenant(batch, tk) == [i \in 1..Len(batch) |-> [batch[i] EXCEPT !.tenant = tk]]

\* One batch larger than the whole window.
OversizedBatch == makeEvents(maxStoredEvents, 1)

SeqBatchInputs ==
    BatchInputs \cup {WithTenant(b, tk) : b \in BatchInputs, tk \in SeqTenantInputs}
                \cup {OversizedBatch}

\* ?limit= absent, not a number, zero, negative, positive below, at and above
\* the window size, and a number of twenty digits.
SeqLimitStrInputs ==
    {<<>>, <<"x">>, <<"0">>, <<"-", "1">>, <<"1">>, <<"2">>, <<"4">>,
     [i \in 1..20 |-> "9"]}

SeqNext ==
    \E p \in SeqProcs :
        \/ PublishBadBodyWithin(p, SeqMaxOps)
        \/ PublishReject(p)
        \/ PublishStartWithin(p, SeqMaxOps, SeqBatchInputs)
        \/ StoreLock(p)
        \/ StoreAppend(p)
        \/ StoreTrim(p)
        \/ StoreUnlock(p)
        \/ PublishAddReceived(p)
        \/ PublishAddAllowed(p)
        \/ PublishAddDenied(p)
        \/ PublishRespond(p)
        \/ ListStartWithin(p, SeqMaxOps, TenantFilterInputs, SeqLimitStrInputs)
        \/ ListRLock(p)
        \/ ListScan(p)
        \/ ListRUnlock(p)
        \/ ListRespond(p)
        \/ StatsStartWithin(p, SeqMaxOps)
        \/ StatsRLock(p)
        \/ StatsLen(p)
        \/ StatsRUnlock(p)
        \/ StatsLoadReceived(p)
        \/ StatsLoadAllowed(p)
        \/ StatsLoadDenied(p)
        \/ StatsRespond(p)
        \/ ClearStartWithin(p, SeqMaxOps)
        \/ ClearLock(p)
        \/ ClearTruncate(p)
        \/ ClearUnlock(p)
        \/ ClearStoreReceived(p)
        \/ ClearStoreAllowed(p)
        \/ ClearStoreDenied(p)
        \/ ClearRespond(p)

SeqSpec == Init /\ [][SeqNext]_vars

----------------------------------------------------------------------------
\* StoredEvents: a caller inside the process (the tests) takes a copy of the
\* window and keeps it while requests go on.

StoredEventsStartWithin(p, maxOps) ==
    /\ CanStartWithin(p, maxOps)
    /\ local' = [local EXCEPT ![p] = [op |-> "storedEvents", out |-> <<>>]]
    /\ opsStarted' = opsStarted + 1
    /\ Goto(p, "snap_rlock")
    /\ UNCHANGED <<shared, log, sizes, clearRan>>
    /\ Observe

\* s.mu.RLock()
StoredEventsRLock(p) ==
    /\ pc[p] = "snap_rlock"
    /\ writer = {}
    /\ readers' = readers \cup {p}
    /\ Goto(p, "snap_copy")
    /\ UNCHANGED <<stored, arr, base, writer, totalReceived, totalAllowed, totalDenied,
                   local, opsStarted, log, sizes, clearRan>>
    /\ Observe

\* out := make([]UsageEvent, len(s.stored)); copy(out, s.stored)
StoredEventsCopy(p) ==
    /\ pc[p] = "snap_copy"
    /\ local' = [local EXCEPT ![p].out = [i \in 1..Len(stored) |-> ElemCopy(stored, i)]]
    /\ Goto(p, "snap_runlock")
    /\ UNCHANGED <<shared, opsStarted, log, sizes, clearRan>>
    /\ Observe

\* defer s.mu.RUnlock(); return out: the caller now holds out.
StoredEventsRUnlock(p) ==
    /\ pc[p] = "snap_runlock"
    /\ readers' = readers \ {p}
    /\ Goto(p, "snap_held")
    /\ UNCHANGED <<stored, arr, base, writer, totalReceived, totalAllowed, totalDenied,
                   local, opsStarted, log, sizes, clearRan>>
    /\ Observe

\* The caller is done with out.
StoredEventsDrop(p) ==
    /\ pc[p] = "snap_held"
    /\ local' = [local EXCEPT ![p] = Idle]
    /\ Goto(p, "idle")
    /\ UNCHANGED <<shared, opsStarted, log, sizes, clearRan>>
    /\ Observe

\* Readers holding a result while ingests and clears run beside them.
SnapMaxOps == 4
SnapNumProcs == 2

SnapProcs == 1..SnapNumProcs

SnapNext ==
    \E p \in SnapProcs :
        \/ PublishStartWithin(p, SnapMaxOps, BatchInputs)
        \/ StoreLock(p)
        \/ StoreAppend(p)
        \/ StoreTrim(p)
        \/ StoreUnlock(p)
        \/ PublishAddReceived(p)
        \/ PublishAddAllowed(p)
        \/ PublishAddDenied(p)
        \/ PublishRespond(p)
        \/ ListStartWithin(p, SnapMaxOps, TenantFilterInputs, LimitStrInputs)
        \/ ListRLock(p)
        \/ ListScan(p)
        \/ ListRUnlock(p)
        \/ ListRespond(p)
        \/ StoredEventsStartWithin(p, SnapMaxOps)
        \/ StoredEventsRLock(p)
        \/ StoredEventsCopy(p)
        \/ StoredEventsRUnlock(p)
        \/ StoredEventsDrop(p)
        \/ ClearStartWithin(p, SnapMaxOps)
        \/ ClearLock(p)
        \/ ClearTruncate(p)
        \/ ClearUnlock(p)
        \/ ClearStoreReceived(p)
        \/ ClearStoreAllowed(p)
        \/ ClearStoreDenied(p)
        \/ ClearRespond(p)

SnapSpec == Init /\ [][SnapNext]_vars

----------------------------------------------------------------------------
\* Concurrent requests under fair scheduling: the Go scheduler runs every
\* runnable goroutine, and sync.RWMutex grants the lock to a goroutine that
\* waits for it once it is free (a waiting writer is not overtaken forever).

LiveNumProcs == 2
LiveMaxOps == 3
LiveProcs == 1..LiveNumProcs

\* s.mu.Lock() / s.mu.RLock(): the only steps at which a goroutine waits.
Acquire(p) == StoreLock(p) \/ ClearLock(p) \/ ListRLock(p) \/ StatsRLock(p)

\* The steps of a request that has started.
Step(p) ==
    \/ PublishReject(p)
    \/ Acquire(p)
    \/ StoreAppend(p)
    \/ StoreTrim(p)
    \/ StoreUnlock(p)
    \/ PublishAddReceived(p)
    \/ PublishAddAllowed(p)
    \/ PublishAddDenied(p)
    \/ PublishRespond(p)
    \/ ListScan(p)
    \/ ListRUnlock(p)
    \/ ListRespond(p)
    \/ StatsLen(p)
    \/ StatsRUnlock(p)
    \/ StatsLoadReceived(p)
    \/ StatsLoadAllowed(p)
    \/ StatsLoadDenied(p)
    \/ StatsRespond(p)
    \/ ClearTruncate(p)
    \/ ClearUnlock(p)
    \/ ClearStoreReceived(p)
    \/ ClearStoreAllowed(p)
    \/ ClearStoreDenied(p)
    \/ ClearRespond(p)

LiveNext ==
    \E p \in LiveProcs :
        \/ PublishBadBodyWithin(p, LiveMaxOps)
        \/ PublishStartWithin(p, LiveMaxOps, BatchInputs)
        \/ ListStartWithin(p, LiveMaxOps, TenantFilterInputs, LimitStrInputs)
        \/ StatsStartWithin(p, LiveMaxOps)
        \/ ClearStartWithin(p, LiveMaxOps)
        \/ Step(p)

Fairness == \A p \in LiveProcs : WF_vars(Step(p)) /\ SF_vars(Acquire(p))

LiveSpec == Init /\ [][LiveNext]_vars /\ Fairness

----------------------------------------------------------------------------
\* Callers that go away.  The context of the request (r.Context() of the HTTP
\* request, the ctx argument of the gRPC method) is cancelled by the caller
\* at any moment of an ingest; no handler reads it.

CancelContext(p) ==
    /\ local[p].op = "publish" /\ ~Cancelled(p)
    /\ local' = [local EXCEPT ![p] = [cancelled |-> TRUE] @@ local[p]]
    /\ UNCHANGED <<shared, pc, opsStarted, log, sizes, clearRan>>
    /\ Observe

CancelNext == LiveNext \/ \E p \in LiveProcs : CancelContext(p)

CancelSpec == Init /\ [][CancelNext]_vars /\ Fairness

----------------------------------------------------------------------------
\* The gRPC variant (grpc/events.go): PublishEvents receives protobuf events
\* and converts each to the UsageEvent it stores; list, stats, clear and
\* StoredEvents are the handlers above.  A string field is a TenantKey that
\* is never nil.  One client, one request after another.

\* The events of the tests: makeEvents(allowed, denied) and the event of
\* TestPublishEvents_EventFieldsPreserved ("t1" is the tests' "tenant-1").
ProtoAllowedEvent(i) ==
    [key |-> "10.0.0.1", tenant |-> <<"t1">>, method |-> "GET", path |-> "/api/v1/data",
     allowed |-> TRUE, remaining |-> 99 - i, limit |-> 100,
     timestamp |-> "2026-02-16T21:00:00Z", status_code |-> StatusOK,
     request_id |-> <<"req-allowed-", i>>]

ProtoDeniedEvent(i) ==
    [key |-> "10.0.0.1", tenant |-> <<"t1">>, method |-> "POST", path |-> "/api/v1/data",
     allowed |-> FALSE, remaining |-> 0, limit |-> 100,
     timestamp |-> "2026-02-16T21:00:01Z", status_code |-> 429,
     request_id |-> <<"req-denied-", i>>]

makeProtoEvents(allowed, denied) ==
    [i \in 1..(allowed + denied) |->
        IF i <= allowed THEN ProtoAllowedEvent(i - 1) ELSE ProtoDeniedEvent(i - allowed - 1)]

PreservedEvent ==
    [key |-> "key-1", tenant |-> <<"tenant-42">>, method |-> "DELETE",
     path |-> "/api/v1/resource/123", allowed |-> TRUE, remaining |-> 50, limit |-> 100,
     timestamp |-> "2026-02-16T21:30:00Z", status_code |-> StatusOK,
     request_id |-> <<"req-xyz">>]

ProtoBatchInputs ==
    {makeProtoEvents(a, d) : a \in 0..MaxPerKind, d \in 0..MaxPerKind} \cup {<<PreservedEvent>>}

\* A conversion that fills RequestID from the key.
Convert_KeyAsRequestId(ev) ==
    [key |-> ev.key, tenant |-> ev.tenant, method |-> ev.method, path |-> ev.path,
     allowed |-> ev.allowed, remaining |-> ev.remaining, limit |-> ev.limit,
     timestamp |-> ev.timestamp, status_code |-> ev.status_code,
     request_id |-> <<ev.key>>]

\* converted[i] = UsageEvent{Key: ev.GetKey(), TenantKey: ev.GetTenantKey(), ...}
Convert(ev) ==
    [key |-> ev.key, tenant |-> ev.tenant, method |-> ev.method, path |-> ev.path,
     allowed |-> ev.allowed, remaining |-> ev.remaining, limit |-> ev.limit,
     timestamp |-> ev.timestamp, status_code |-> ev.status_code,
     request_id |-> ev.request_id]

\* A PublishEvents that refuses an empty batch with an error.
GrpcPublishStartWithin_RejectEmpty(p, maxOps, batches) ==
    /\ CanStartWithin(p, maxOps)
    /\ \E batch \in batches :
          /\ local' = [local EXCEPT ![p] =
                        [op |-> "publish", sent |-> batch,
                         batch |-> [i \in 1..Len(batch) |-> Convert(batch[i])],
                         count |-> Len(batch),
                         allowed |-> CountAllowed(batch), denied |-> CountDenied(batch)]]
          /\ Goto(p, IF batch = <<>> THEN "pub_reject" ELSE "store_lock")
    /\ opsStarted' = opsStarted + 1
    /\ UNCHANGED <<shared, log, sizes, clearRan>>
    /\ Observe

\* PublishEvents up to the call of store: the batch is converted and classified.
GrpcPublishStartWithin(p, maxOps, batches) ==
    /\ CanStartWithin(p, maxOps)
    /\ \E batch \in batches :
          local' = [local EXCEPT ![p] =
                      [op |-> "publish", sent |-> batch,
                       batch |-> [i \in 1..Len(batch) |-> Convert(batch[i])],
                       count |-> Len(batch),
                       allowed |-> CountAllowed(batch), denied |-> CountDenied(batch)]]
    /\ opsStarted' = opsStarted + 1
    /\ Goto(p, "store_lock")
    /\ UNCHANGED <<shared, log, sizes, clearRan>>
    /\ Observe

\* return &PublishEventsResponse{Accepted: count}, nil
NilError == "nil"

GrpcPublishResponse(p) == [accepted |-> local[p].count, err |-> NilError]

GrpcNext ==
    \E p \in SeqProcs :
        \/ GrpcPublishStartWithin(p, SeqMaxOps, ProtoBatchInputs)
        \/ StoreLock(p)
        \/ StoreAppend(p)
        \/ StoreTrim(p)
        \/ StoreUnlock(p)
        \/ PublishAddReceived(p)
        \/ PublishAddAllowed(p)
        \/ PublishAddDenied(p)
        \/ PublishRespond(p)
        \/ ListStartWithin(p, SeqMaxOps, TenantFilterInputs, SeqLimitStrInputs)
        \/ ListRLock(p)
        \/ ListScan(p)
        \/ ListRUnlock(p)
        \/ ListRespond(p)
        \/ StatsStartWithin(p, SeqMaxOps)
        \/ StatsRLock(p)
        \/ StatsLen(p)
        \/ StatsRUnlock(p)
        \/ StatsLoadReceived(p)
        \/ StatsLoadAllowed(p)
        \/ StatsLoadDenied(p)
        \/ StatsRespond(p)
        \/ StoredEventsStartWithin(p, SeqMaxOps)
        \/ StoredEventsRLock(p)
        \/ StoredEventsCopy(p)
        \/ StoredEventsRUnlock(p)
        \/ StoredEventsDrop(p)
        \/ ClearStartWithin(p, SeqMaxOps)
        \/ ClearLock(p)
        \/ ClearTruncate(p)
        \/ ClearUnlock(p)
        \/ ClearStoreReceived(p)
        \/ ClearStoreAllowed(p)
        \/ ClearStoreDenied(p)
        \/ ClearRespond(p)

GrpcSpec == Init /\ [][GrpcNext]_vars

----------------------------------------------------------------------------
\* Vocabulary of the properties.

\* The goroutine is inside store, holding the write lock.
InStore(p) == pc[p] \in {"store_append", "store_trim", "store_unlock"}

\* The goroutine is inside a publish request (valid body) that has not responded.
InPublish(p) == local[p].op = "publish"

\* The responses the handlers write at their respond steps.
RejectResponse(p) == [code |-> StatusBadRequest, error |-> "invalid request body"]

\* A response that reports only the records the window could take.
PublishResponse_Retained(p) ==
    [code |-> StatusOK, accepted |-> Min(local[p].count, maxStoredEvents)]

PublishResponse(p) == [code |-> StatusOK, accepted |-> local[p].count]

ListResponse(p) == [code |-> StatusOK, events |-> Values(local[p].result)]

StatsResponse(p) ==
    [code |-> StatusOK,
     total_received |-> local[p].received, total_allowed |-> local[p].allowed,
     total_denied |-> local[p].denied, stored_events |-> local[p].n]

ClearResponse(p) == [code |-> StatusNoContent]

Quiescent == \A p \in Procs : pc[p] = "idle"

\* Number of records of batch b (batches are named in append order).
SizeOf(b) == sizes[b]

----------------------------------------------------------------------------
\* C1: whenever no ingest is inside store holding the write lock, the window
\* has at most maxStoredEvents records, and every stored_events value that
\* stats returns is at most maxStoredEvents.
C1_CapacityInvariant ==
    /\ (\A p \in Procs : ~InStore(p)) => Len(stored) <= maxStoredEvents
    /\ \A p \in Procs :
          pc[p] = "stats_respond" => StatsResponse(p).stored_events <= maxStoredEvents

\* An eviction has happened and stats answers with a full window.
C1_Witness ==
    /\ Len(log) > maxStoredEvents
    /\ \E p \in Procs :
          pc[p] = "stats_respond" /\ StatsResponse(p).stored_events = maxStoredEvents

\* C2: in every reachable state totalReceived = totalAllowed + totalDenied.
\* (The three counters are advanced by three separate atomic operations.)
C2_AccountingIdentity == totalReceived = totalAllowed + totalDenied

\* The goroutine's next step reads shared state (the window under the read
\* lock, or a counter).
AboutToRead(q) ==
    pc[q] \in {"list_scan", "stats_len",
               "stats_loadReceived", "stats_loadAllowed", "stats_loadDenied"}

\* The batch of ingest p is in the window (or was, before a trim or a clear)
\* and some counter has not yet been advanced by the batch's amount.
HalfIngested(p) ==
    \/ pc[p] \in {"store_trim", "store_unlock", "pub_addReceived"} /\ local[p].count > 0
    \/ pc[p] = "pub_addAllowed" /\ (local[p].allowed > 0 \/ local[p].denied > 0)
    \/ pc[p] = "pub_addDenied" /\ local[p].denied > 0

\* C3: ingest is one atomic step per batch: no stats or list call reads
\* shared state while a batch is appended and its counters are not all advanced.
C3_IngestAtomic ==
    \A q \in Procs : AboutToRead(q) => \A p \in Procs \ {q} : ~HalfIngested(p)

\* C4: every stats response equals the store's (totalReceived, totalAllowed,
\* totalDenied, len(stored)) at some single instant during the call.
C4_StatsPointInTime ==
    \A p \in Procs :
        pc[p] = "stats_respond" =>
            <<StatsResponse(p).total_received, StatsResponse(p).total_allowed,
              StatsResponse(p).total_denied, StatsResponse(p).stored_events>> \in seen[p]

\* Clear p has emptied the window and a counter it has yet to reset is non-zero.
HalfCleared(p) ==
    \/ pc[p] \in {"clear_unlock", "clear_storeReceived"}
          /\ <<totalReceived, totalAllowed, totalDenied>> # <<0, 0, 0>>
    \/ pc[p] = "clear_storeAllowed" /\ <<totalAllowed, totalDenied>> # <<0, 0>>
    \/ pc[p] = "clear_storeDenied" /\ totalDenied # 0

\* C5: clear is atomic for readers: no stats or list call reads shared state
\* while a clear has emptied the window and not yet reset every counter.
\* (Stated for states with no ingest in flight, where a non-zero counter can
\* only be one the clear has not reset.)
C5_ClearAtomic ==
    (\A r \in Procs : ~InPublish(r)) =>
        \A q \in Procs : AboutToRead(q) => \A p \in Procs \ {q} : ~HalfCleared(p)

\* C6: with no clear, once all ingests have completed the counters equal the
\* totals of all batches ingested: received B, allowed A, denied D.
C6_NoLostUpdates ==
    (~clearRan /\ \A p \in Procs : ~InPublish(p)) =>
        /\ totalReceived = Len(log)
        /\ totalAllowed = CountAllowed(log)
        /\ totalDenied = CountDenied(log)

\* Two ingests have completed, and a stats call that overlapped them (it read
\* a total in between) is still running.
C6_Witness ==
    /\ ~clearRan /\ \A p \in Procs : ~InPublish(p)
    /\ Len(sizes) = 2 /\ totalReceived >= 3
    /\ \E q \in Procs :
          /\ pc[q] = "stats_respond"
          /\ StatsResponse(q).total_received > 0
          /\ StatsResponse(q).total_received < totalReceived

\* The records of each batch are adjacent and in batch order, and batches
\* follow each other in append order.
ContiguousInOrder(s) ==
    \A i \in 1..(Len(s) - 1) :
        \/ s[i + 1].batch = s[i].batch /\ s[i + 1].idx = s[i].idx + 1
        \/ s[i + 1].batch > s[i].batch /\ s[i + 1].idx = 1

\* As ContiguousInOrder, and every batch in s runs up to its last record:
\* a batch is cut, if at all, only at its old end, and only the oldest one.
WholeRuns(s) ==
    /\ ContiguousInOrder(s)
    /\ \A i \in 1..Len(s) :
          (i = Len(s) \/ s[i + 1].batch # s[i].batch) => s[i].idx = SizeOf(s[i].batch)

\* The list call has produced its result.
ListDone(p) == pc[p] \in {"list_runlock", "list_respond"}

\* C7, as stated: the window keeps each batch contiguous and in order, and
\* every list result holds each batch either completely or not at all.
C7_ListHoldsWholeBatches ==
    /\ ContiguousInOrder(stored)
    /\ \A p \in Procs :
          ListDone(p) =>
              LET result == ListResponse(p).events
              IN  \A k \in 1..Len(result) :
                      Cardinality({j \in 1..Len(result) : result[j].batch = result[k].batch})
                          = SizeOf(result[k].batch)

\* C7, amended: the window keeps each batch contiguous and in order, cut only
\* at its old end; and every list result without tenant filter is, read
\* oldest first, such a sequence too: it never holds a record of a batch
\* without all the later records of that batch.
C7_NoTornBatches ==
    /\ WholeRuns(stored)
    /\ \A p \in Procs :
          (ListDone(p) /\ local[p].tenantFilter = "") =>
              WholeRuns(Reverse(ListResponse(p).events))

\* Two ingests of two records each are in flight together, both appended, and
\* a list call running beside them has returned records of both.
C7_Witness ==
    \E p, q1, q2 \in Procs :
        /\ q1 # q2
        /\ InPublish(q1) /\ pc[q1] \in {"pub_addReceived", "pub_addAllowed", "pub_addDenied"}
        /\ InPublish(q2) /\ pc[q2] \in {"pub_addReceived", "pub_addAllowed", "pub_addDenied"}
        /\ local[q1].count = 2 /\ local[q2].count = 2
        /\ pc[p] = "list_respond" /\ local[p].tenantFilter = ""
        /\ Len(ListResponse(p).events) = maxStoredEvents
        /\ ListResponse(p).events = Reverse(stored)

\* C8: once every operation has completed, totalReceived = totalAllowed +
\* totalDenied and the counters equal the record counts of the batches
\* ingested since the last clear.
C8_QuiescentAccounting ==
    Quiescent =>
        /\ totalReceived = totalAllowed + totalDenied
        /\ totalReceived = Len(log)
        /\ totalAllowed = CountAllowed(log)
        /\ totalDenied = CountDenied(log)

\* A step of store's trim.
TrimStep == \E p \in Procs : pc[p] = "store_trim" /\ pc'[p] = "store_unlock"

\* C9: with no clear, once more than maxStoredEvents records R1..Rn are
\* ingested the window is exactly the last maxStoredEvents of them in their
\* order; and a trim only removes a prefix of the window.
C9_FIFOEviction ==
    /\ []((~clearRan /\ (\A p \in Procs : ~InStore(p)) /\ Len(log) > maxStoredEvents)
            => stored = LastN(log, maxStoredEvents))
    /\ [][TrimStep => IsSuffix(stored', stored)]_vars

\* Five records came in three batches, store has returned, and the window
\* holds R3..R5.
C9_Witness ==
    /\ ~clearRan /\ \A p \in Procs : ~InStore(p)
    /\ Len(sizes) = 3 /\ Len(log) = 5
    /\ stored = SubSeq(log, 3, 5)

\* C10: with no clear, once more than maxStoredEvents records have been
\* ingested the window read by stats has exactly maxStoredEvents records
\* after every completed ingest.
C10_StaysFull ==
    (~clearRan /\ writer = {} /\ Len(log) > maxStoredEvents)
        => Len(stored) = maxStoredEvents

\* The window overflowed with the second batch, a third ingest has completed
\* after that, and the window is full.
C10_Witness ==
    /\ ~clearRan /\ Quiescent
    /\ Len(sizes) = 3
    /\ sizes[1] + sizes[2] > maxStoredEvents /\ sizes[3] > 0
    /\ Len(stored) = maxStoredEvents

----------------------------------------------------------------------------
\* Sequential execution (SeqSpec).

\* The records ingested since the last clear (or since construction), counted
\* from the history.
AllowedSinceClear == Cardinality({i \in 1..Len(log) : log[i].allowed})
DeniedSinceClear == Cardinality({i \in 1..Len(log) : ~log[i].allowed})

\* C11: in sequential execution, stats returns total_received = a + d,
\* total_allowed = a and total_denied = d, where a and d count the allowed
\* and denied records ingested after the last clear (or since construction);
\* ingests after a clear are counted normally.
C11_SequentialAccounting ==
    \A p \in Procs :
        pc[p] = "stats_respond" =>
            /\ StatsResponse(p).total_received = AllowedSinceClear + DeniedSinceClear
            /\ StatsResponse(p).total_allowed = AllowedSinceClear
            /\ StatsResponse(p).total_denied = DeniedSinceClear

\* A non-empty batch was ingested, then a clear ran, then allowed and denied
\* records were ingested, and stats is about to respond.
C11_Witness ==
    /\ clearRan /\ pc[1] = "stats_respond"
    /\ Len(sizes) >= 2 /\ sizes[1] > 0
    /\ log # <<>> /\ log[1].batch > 1
    /\ AllowedSinceClear > 0 /\ DeniedSinceClear > 0

\* A step that lowers one of the three counters.
CounterLowered ==
    \/ totalReceived' < totalReceived
    \/ totalAllowed' < totalAllowed
    \/ totalDenied' < totalDenied

\* A step of clear's three Store(0) calls.
ClearStoreStep ==
    \E p \in Procs :
        /\ pc[p] \in {"clear_storeReceived", "clear_storeAllowed", "clear_storeDenied"}
        /\ pc'[p] # pc[p]

\* C12: eviction never lowers a counter: in sequential execution with no
\* clear, after ingests totalling n records stats returns total_received = n
\* even when n > maxStoredEvents (and then stored_events = maxStoredEvents);
\* the trim leaves the counters alone and only clear lowers a counter.
C12_CountersOutliveEviction ==
    /\ [](\A p \in Procs :
            (pc[p] = "stats_respond" /\ ~clearRan) =>
                /\ StatsResponse(p).total_received = Len(log)
                /\ StatsResponse(p).stored_events = Min(Len(log), maxStoredEvents))
    /\ [][TrimStep => UNCHANGED <<totalReceived, totalAllowed, totalDenied>>]_vars
    /\ [][CounterLowered => ClearStoreStep]_vars

\* No clear, more records ingested than the window holds, and stats is about
\* to return the full count next to a full window.
C12_Witness ==
    /\ ~clearRan /\ pc[1] = "stats_respond"
    /\ Len(log) > maxStoredEvents
    /\ StatsResponse(1).total_received = Len(log)
    /\ StatsResponse(1).stored_events = maxStoredEvents

\* C13: every ingest of a well-formed batch answers 200 with accepted equal
\* to the number of records of the batch, whatever its size: zero, within the
\* window, or large enough to evict (even part of the batch itself).
C13_AcceptedIsBatchLength ==
    \A p \in Procs :
        pc[p] = "pub_respond" =>
            /\ PublishResponse(p).code = StatusOK
            /\ PublishResponse(p).accepted = Len(local[p].batch)

\* An ingest of a batch longer than the window is about to respond: the
\* window kept maxStoredEvents of its records, accepted reports them all.
C13_Witness ==
    /\ pc[1] = "pub_respond"
    /\ Len(local[1].batch) > maxStoredEvents
    /\ Len(stored) = maxStoredEvents
    /\ PublishResponse(1).accepted = maxStoredEvents + 1

\* A step taken by a publish request whose batch is empty.
EmptyPublishStep ==
    \E p \in Procs :
        /\ pc'[p] # pc[p]
        /\ \/ local[p].op = "publish" /\ local[p].batch = <<>>
           \/ local'[p].op = "publish" /\ local'[p].batch = <<>>

\* C14: ingesting an empty batch is a no-op: no step of the request changes
\* the window or any of the three counters, and the request answers 200 with
\* accepted = 0.
C14_EmptyBatchNoOp ==
    /\ [][EmptyPublishStep =>
            UNCHANGED <<stored, totalReceived, totalAllowed, totalDenied>>]_vars
    /\ [](\A p \in Procs :
            (pc[p] = "pub_respond" /\ local[p].batch = <<>>) =>
                PublishResponse(p) = [code |-> StatusOK, accepted |-> 0])

\* An empty batch has gone through store and the three Adds on a store that
\* holds records and non-zero counters.
C14_Witness ==
    /\ pc[1] = "pub_respond" /\ local[1].batch = <<>>
    /\ stored # <<>>
    /\ totalReceived > 0 /\ totalAllowed > 0 /\ totalDenied > 0

\* The records of s that a list with filter f is to return: all of them
\* without a filter, else those whose TenantKey points to exactly f.
Matching(s, f) == SelectSeq(s, LAMBDA e : f = "" \/ e.tenant = <<f>>)

\* The newest k records of s matching f, newest first.
NewestMatching(s, f, k) ==
    LET m == Reverse(Matching(s, f))
    IN  SubSeq(m, 1, Min(k, Len(m)))

\* C15: a list with effective limit k and filter f returns exactly
\* min(k, number of retained matching records) records: the newest matching
\* ones, newest first; with k above maxStoredEvents, all retained matching ones.
C15_ListNewestFirstCapped ==
    \A p \in Procs :
        pc[p] = "list_respond" =>
            ListResponse(p).events =
                NewestMatching(stored, local[p].tenantFilter, local[p].limit)

\* The window is full, two of its records match the filter and its newest
\* record does not; a list with limit 1 returns the newer of the two.
C15_Witness ==
    /\ pc[1] = "list_respond"
    /\ local[1].tenantFilter = "t1" /\ local[1].limit = 1
    /\ Len(stored) = maxStoredEvents
    /\ Len(Matching(stored, "t1")) = 2
    /\ stored[maxStoredEvents].tenant # <<"t1">>
    /\ Len(ListResponse(1).events) = 1

\* Number of records of s at index j or later whose TenantKey points to f.
MatchesFrom(s, j, f) == Cardinality({i \in j..Len(s) : s[i].tenant = <<f>>})

\* C16: a list with a non-empty filter t returns only records whose
\* TenantKey points to exactly t (none with a nil, empty or other tenant),
\* and skips no matching record among the newest limit matches.
C16_TenantFilterExact ==
    \A p \in Procs :
        (pc[p] = "list_respond" /\ local[p].tenantFilter # "") =>
            LET f == local[p].tenantFilter
                result == ListResponse(p).events
            IN  /\ \A i \in 1..Len(result) : result[i].tenant = <<f>>
                /\ \A j \in 1..Len(stored) :
                      (stored[j].tenant = <<f>> /\ MatchesFrom(stored, j, f) <= local[p].limit)
                          => \E i \in 1..Len(result) : result[i] = stored[j]

\* The window holds a record of tenant t1, one of tenant t2 and one without
\* a tenant; the list filtered by t1 returns the first alone.
C16_Witness ==
    /\ pc[1] = "list_respond" /\ local[1].tenantFilter = "t1"
    /\ \E i, j, k \in 1..Len(stored) :
          /\ stored[i].tenant = <<"t1">>
          /\ stored[j].tenant = <<"t2">>
          /\ stored[k].tenant = <<>>
    /\ Len(ListResponse(1).events) = 1

\* The ?limit= string read as the caller wrote it, without strconv: its
\* digits after an optional sign, whether it is a decimal integer, and its sign.
LimitBody(str) == IF str # <<>> /\ Head(str) \in {"+", "-"} THEN Tail(str) ELSE str

IsInteger(str) ==
    /\ LimitBody(str) # <<>>
    /\ \A i \in 1..Len(LimitBody(str)) : LimitBody(str)[i] \in {Digits[d] : d \in 1..10}

IsPositiveInteger(str) ==
    /\ IsInteger(str)
    /\ Head(str) # "-"
    /\ \E i \in 1..Len(LimitBody(str)) : LimitBody(str)[i] # "0"

\* The decimal digits of a positive number.
RECURSIVE ToDigits(_)
ToDigits(n) ==
    IF n < 10 THEN <<Digits[n + 1]>>
    ELSE Append(ToDigits(n \div 10), Digits[(n % 10) + 1])

\* The number the list handler works with is the number the caller wrote.
UsedAsGiven(p) == ToDigits(local[p].limit) = StripZeros(LimitBody(local[p].limitStr))

\* C17 as stated: a list request whose limit is absent, non-numeric, zero or
\* negative is served with the default of 100, and every positive integer
\* limit is used as given; no limit value is rejected.
C17_LimitNormalization ==
    \A p \in Procs :
        local[p].op = "list" =>
            /\ IF IsPositiveInteger(local[p].limitStr)
               THEN UsedAsGiven(p)
               ELSE local[p].limit = DefaultLimit
            /\ pc[p] = "list_respond" => ListResponse(p).code = StatusOK

\* C17, amended: a limit that is absent, non-numeric, zero or negative, or a
\* positive integer too large for an int, is served with the default of 100;
\* a positive integer limit that fits in an int is used as given; no limit
\* value is rejected.
C17_LimitNormalizationInRange ==
    \A p \in Procs :
        local[p].op = "list" =>
            /\ IF IsPositiveInteger(local[p].limitStr)
                    /\ ~OutOfRange(LimitBody(local[p].limitStr))
               THEN UsedAsGiven(p)
               ELSE local[p].limit = DefaultLimit
            /\ pc[p] = "list_respond" => ListResponse(p).code = StatusOK

\* A list with limit=-1 on a full window is about to answer with the whole
\* window: the limit was replaced by the default.
C17_Witness ==
    /\ pc[1] = "list_respond"
    /\ local[1].limitStr = <<"-", "1">> /\ local[1].tenantFilter = ""
    /\ local[1].limit = DefaultLimit
    /\ Len(stored) = maxStoredEvents
    /\ Len(ListResponse(1).events) = maxStoredEvents

\* The state NewEventService builds: empty window, three counters at zero.
StoreEmpty ==
    /\ stored = <<>>
    /\ totalReceived = 0 /\ totalAllowed = 0 /\ totalDenied = 0

\* A step of a clear request.
ClearStep ==
    \E p \in Procs :
        /\ pc[p] \in {"clear_lock", "clear_truncate", "clear_unlock", "clear_storeReceived",
                      "clear_storeAllowed", "clear_storeDenied", "clear_respond"}
        /\ pc'[p] # pc[p]

\* C19: in sequential execution, once a clear has completed and until the
\* next ingest, stats returns {0, 0, 0, 0} and list returns the empty
\* sequence; every clear ends in the empty state, and a clear of an already
\* cleared store changes nothing, so repeated clears equal a single one.
C19_ClearPostcondition ==
    /\ [](\A p \in Procs :
            /\ pc[p] = "clear_respond" => StoreEmpty
            /\ (clearRan /\ log = <<>> /\ pc[p] = "stats_respond") =>
                   StatsResponse(p) =
                       [code |-> StatusOK, total_received |-> 0, total_allowed |-> 0,
                        total_denied |-> 0, stored_events |-> 0]
            /\ (clearRan /\ log = <<>> /\ pc[p] = "list_respond") =>
                   ListResponse(p).events = <<>>)
    /\ [][(ClearStep /\ StoreEmpty) => StoreEmpty']_vars

\* Records were ingested and a clear emptied the store; a second clear is
\* now starting on the cleared store.
C19_Witness ==
    /\ pc[1] = "clear_lock"
    /\ Len(sizes) >= 1 /\ sizes[1] > 0
    /\ log = <<>>
    /\ StoreEmpty

\* A step of a publish request whose body does not decode.
BadBodyStep ==
    \E p \in Procs :
        /\ pc'[p] # pc[p]
        /\ pc[p] = "pub_reject" \/ pc'[p] = "pub_reject"

\* C20: a publish request with a malformed body is answered 400 and never
\* reaches the store: no step of it changes the window, the lock or any of
\* the three counters, and nothing is appended.
C20_BadBodyLeavesStore ==
    /\ [][BadBodyStep => UNCHANGED <<shared, sizes, log>>]_vars
    /\ [](\A p \in Procs :
            pc[p] = "pub_reject" =>
                /\ RejectResponse(p).code = StatusBadRequest
                /\ local[p].op = "publish_invalid")

\* A malformed request is about to be answered on a store that holds
\* records and non-zero counters.
C20_Witness ==
    /\ pc[1] = "pub_reject"
    /\ stored # <<>>
    /\ totalReceived > 0 /\ totalAllowed > 0 /\ totalDenied > 0

----------------------------------------------------------------------------
\* Readers beside writers (SnapSpec).

\* The window always is the part of its backing array that its offset and
\* length select.
WindowInArray ==
    /\ base + Len(stored) <= Len(arr)
    /\ stored = SubSeq(arr, base + 1, base + Len(stored))

\* The goroutine holds a result that has been built: the list handler between
\* its scan and its response, the caller of StoredEvents until it drops out.
Holding(p) == pc[p] \in {"list_runlock", "list_respond", "snap_runlock", "snap_held"}

\* What the held result reads as.
HeldValues(p) ==
    IF local[p].op = "list" THEN Values(local[p].result) ELSE Values(local[p].out)

\* C18: the sequence that list or StoredEvents produced is a copy: no later
\* step of any request (ingest, eviction, clear, or the appends that reuse the
\* backing array after a clear truncated the window to length 0) changes the
\* length or the contents of a result that is still held.
C18_SnapshotIsolation ==
    [][\A p \in Procs : (Holding(p) /\ Holding(p)') => HeldValues(p)' = HeldValues(p)]_vars

\* A caller holds the copy it took of the first batch; since then a clear
\* truncated the window and a later ingest wrote its records over the same
\* cells of the same backing array.
C18_Witness ==
    \E p \in Procs :
        /\ pc[p] = "snap_held"
        /\ Len(HeldValues(p)) >= 1 /\ HeldValues(p)[1].batch = 1
        /\ clearRan /\ stored # <<>>
        /\ base = 0 /\ Len(arr) = initialCap
        /\ stored[1].batch > 1

----------------------------------------------------------------------------
\* Exclusion between writers and readers (Spec).

\* The goroutine is inside the write-lock section of store or clear.
MutatingWindow(p) ==
    pc[p] \in {"store_append", "store_trim", "store_unlock", "clear_truncate", "clear_unlock"}

\* The goroutine is between the first and the last of its three counter updates.
MutatingCounters(p) ==
    pc[p] \in {"pub_addAllowed", "pub_addDenied", "clear_storeAllowed", "clear_storeDenied"}

\* The next step of the ingest, clear or list goroutine reads or writes the window.
TouchingWindow(q) == pc[q] \in {"store_append", "store_trim", "clear_truncate", "list_scan"}

\* The next step of the ingest or clear goroutine writes a counter.
TouchingCounters(q) ==
    pc[q] \in {"pub_addReceived", "pub_addAllowed", "pub_addDenied",
               "clear_storeReceived", "clear_storeAllowed", "clear_storeDenied"}

\* C21: while an ingest or a clear is mutating the window, no other ingest,
\* clear or list reads or mutates the window; while it is mutating the
\* counters, no other ingest or clear mutates the counters.
C21_WriterExclusion ==
    \A p, q \in Procs :
        p # q =>
            /\ MutatingWindow(p) => ~TouchingWindow(q)
            /\ MutatingCounters(p) => ~TouchingCounters(q)

\* The goroutine is inside its read-lock section.
InReadSection(p) ==
    pc[p] \in {"list_scan", "list_runlock", "stats_len", "stats_runlock",
               "snap_copy", "snap_runlock"}

\* The next step of the list or stats goroutine reads the window or a counter.
Reading(p) ==
    pc[p] \in {"list_scan", "stats_len",
               "stats_loadReceived", "stats_loadAllowed", "stats_loadDenied"}

\* The ingest or clear goroutine has begun writing the shared state and has
\* not finished: it holds the write lock or still has counter updates to make.
Writing(q) ==
    pc[q] \in {"store_append", "store_trim", "store_unlock",
               "pub_addReceived", "pub_addAllowed", "pub_addDenied",
               "clear_truncate", "clear_unlock",
               "clear_storeReceived", "clear_storeAllowed", "clear_storeDenied"}

\* C22: no list or stats call reads the window or the counters at the same
\* time as an ingest or a clear is writing the shared state.
C22_ReadersExcludeWriters ==
    \A p, q \in Procs : (p # q /\ Writing(q)) => ~Reading(p)

\* The window part of C22, which the mutex does provide: whoever holds the
\* write lock holds it alone, and no one is inside a read section meanwhile.
LockExclusion ==
    /\ Cardinality(writer) <= 1
    /\ writer # {} => readers = {} /\ \A p \in Procs : ~InReadSection(p)

\* Two list/stats calls are inside their read sections at the same time.
TwoReaders ==
    \E p, q \in Procs : p # q /\ InReadSection(p) /\ InReadSection(q) /\ {p, q} \subseteq readers

----------------------------------------------------------------------------
\* More of sequential execution (SeqSpec).

\* C23: in sequential execution with no clear, stats returns stored_events =
\* min(total_received, maxStoredEvents); while fewer than maxStoredEvents
\* records have been ingested, stored_events equals total_received.
C23_RetainedCount ==
    \A p \in Procs :
        (pc[p] = "stats_respond" /\ ~clearRan) =>
            /\ StatsResponse(p).stored_events =
                   Min(StatsResponse(p).total_received, maxStoredEvents)
            /\ StatsResponse(p).total_received <= maxStoredEvents =>
                   StatsResponse(p).stored_events = StatsResponse(p).total_received

\* Three non-empty batches were ingested one after another, filling the
\* window exactly; stats is about to report as many stored as received.
C23_Witness ==
    /\ pc[1] = "stats_respond" /\ ~clearRan
    /\ Len(sizes) = 3 /\ sizes[1] > 0 /\ sizes[2] > 0 /\ sizes[3] > 0
    /\ StatsResponse(1).total_received = maxStoredEvents
    /\ StatsResponse(1).stored_events = maxStoredEvents

----------------------------------------------------------------------------
\* The gRPC variant, one request after another (GrpcSpec).

EventFields ==
    {"key", "tenant", "method", "path", "allowed", "remaining", "limit",
     "timestamp", "status_code", "request_id"}

\* Record a is record b, the idx-th of batch number batch, with every field as sent.
SameRecord(a, b) ==
    /\ a.batch = b.batch /\ a.idx = b.idx
    /\ \A f \in EventFields : a[f] = b[f]

FromLog(s) == \A i \in DOMAIN s : \E j \in DOMAIN log : SameRecord(s[i], log[j])

NoDuplicates(s) ==
    \A i, j \in DOMAIN s : (s[i].batch = s[j].batch /\ s[i].idx = s[j].idx) => i = j

\* C24: every record in the window, and every record of a result that list or
\* StoredEvents produced, equals field for field (key, tenant_key, method,
\* path, allowed, remaining, limit, timestamp, status_code, request_id) a
\* record passed to an ingest since the last clear, and no record occurs twice.
C24_RecordsPreserved ==
    /\ FromLog(stored) /\ NoDuplicates(stored)
    /\ \A p \in Procs :
          Holding(p) => FromLog(HeldValues(p)) /\ NoDuplicates(HeldValues(p))

\* The event of the field-preservation test was ingested after another batch
\* and is read back through StoredEvents with its ten fields.
C24_Witness ==
    /\ pc[1] = "snap_held"
    /\ Len(HeldValues(1)) = 2
    /\ HeldValues(1)[1].request_id = <<"req-denied-", 0>>
    /\ HeldValues(1)[2] = PreservedEvent @@ [batch |-> 2, idx |-> 1]

\* The labels at which a handler writes its response and returns.
RespondLabels == {"pub_respond", "list_respond", "stats_respond", "clear_respond"}

SuccessCodes == {StatusOK, StatusNoContent}

\* C25: ingest, list, stats and clear are total: whatever the batch, the
\* filter, the limit and the state of the store, the operation takes no error
\* path, is never left without a next step, and ends with a success result;
\* the gRPC PublishEvents returns a nil error with accepted = len(batch).
C25_OperationsTotal ==
    /\ ~Quiescent => ENABLED GrpcNext
    /\ \A p \in SeqProcs :
          /\ pc[p] # "pub_reject"
          /\ pc[p] = "pub_respond" =>
                /\ GrpcPublishResponse(p).err = NilError
                /\ GrpcPublishResponse(p).accepted = Len(local[p].sent)
          /\ pc[p] = "list_respond" => ListResponse(p).code \in SuccessCodes
          /\ pc[p] = "stats_respond" => StatsResponse(p).code \in SuccessCodes
          /\ pc[p] = "clear_respond" => ClearResponse(p).code \in SuccessCodes

\* The fourth request, an empty batch, is answered with a nil error on a
\* store that was cleared and holds two records again.
C25_Witness ==
    /\ pc[1] = "pub_respond" /\ local[1].sent = <<>>
    /\ GrpcPublishResponse(1) = [accepted |-> 0, err |-> NilError]
    /\ opsStarted = 4 /\ Len(stored) = 2 /\ clearRan

----------------------------------------------------------------------------
\* More of sequential execution of the HTTP variant (SeqSpec).

\* The publish of p carries more records than the window can retain.
Oversized(p) == InPublish(p) /\ Len(local[p].sent) > maxStoredEvents

\* The publish of p has returned from store and not yet responded.
AfterStore(p) ==
    pc[p] \in {"pub_addReceived", "pub_addAllowed", "pub_addDenied", "pub_respond"}

AllowedIn(s) == Cardinality({i \in DOMAIN s : s[i].allowed})
DeniedIn(s) == Cardinality({i \in DOMAIN s : ~s[i].allowed})

\* C26: once a batch of m > maxStoredEvents records has been stored, the
\* window is exactly the last maxStoredEvents records of that batch in batch
\* order (everything retained before and the first m - maxStoredEvents
\* records of the batch are gone), and the counters advance by m: received
\* by m, allowed and denied by the batch's allowed and denied records.
C26_OversizedBatch ==
    /\ [](\A p \in Procs :
            (Oversized(p) /\ AfterStore(p)) =>
                stored = LastN(Tag(Len(sizes), local[p].sent), maxStoredEvents))
    /\ [][\A p \in Procs :
            (Oversized(p) /\ pc'[p] # pc[p]) =>
                /\ pc[p] = "pub_addReceived" =>
                      totalReceived' = totalReceived + Len(local[p].sent)
                /\ pc[p] = "pub_addAllowed" =>
                      totalAllowed' = totalAllowed + AllowedIn(local[p].sent)
                /\ pc[p] = "pub_addDenied" =>
                      totalDenied' = totalDenied + DeniedIn(local[p].sent)
                /\ pc[p] = "pub_respond" =>
                      totalAllowed + totalDenied = totalReceived]_vars

\* A batch of maxStoredEvents + 1 records was stored on a window that held two
\* records of an earlier batch; only its last maxStoredEvents records remain.
C26_Witness ==
    /\ pc[1] = "pub_respond" /\ Oversized(1)
    /\ Len(sizes) = 2 /\ sizes[1] = 2 /\ ~clearRan
    /\ Len(stored) = maxStoredEvents
    /\ \A i \in DOMAIN stored : stored[i].batch = 2 /\ stored[i].idx = i + 1
    /\ totalReceived = 2 + maxStoredEvents + 1

----------------------------------------------------------------------------
\* Concurrent requests (Spec).

\* C27: whenever no writer holds the lock, the window is the last
\* min(n, maxStoredEvents) records of the concatenation, in write-lock grant
\* order, of the batches stored since the last clear took the lock (n being
\* its length), with the records of each batch in batch order.
C27_WindowReferenceModel ==
    writer = {} => stored = LastN(log, Min(Len(log), maxStoredEvents))

\* After a clear truncated the window, two goroutines that are both still in
\* flight stored a batch of two records each; the window holds the last
\* maxStoredEvents of the four records, in grant order.
C27_Witness ==
    /\ writer = {} /\ clearRan
    /\ Len(log) = 4 /\ log[1].batch = 1 /\ log[3].batch = 2
    /\ stored = SubSeq(log, 2, 4)
    /\ \E p, q \in Procs : p # q /\ InPublish(p) /\ AfterStore(p)
                                 /\ InPublish(q) /\ AfterStore(q)

\* The labels between Lock and Unlock, and between RLock and RUnlock.
WriteSectionLabels ==
    {"store_append", "store_trim", "store_unlock", "clear_truncate", "clear_unlock"}

ReadSectionLabels == {"list_scan", "list_runlock", "stats_len", "stats_runlock"}

\* The labels at which a handler logs, encodes or writes its response.
OutputLabels == RespondLabels \cup {"pub_reject"}

\* C28: no operation holds the mutex, for reading or for writing, while it
\* logs or encodes and writes its response; the lock is held only between
\* its acquisition and the end of the work on s.stored.
C28_MinimalLockScope ==
    \A p \in Procs :
        /\ pc[p] \in OutputLabels => p \notin writer \cup readers
        /\ p \in writer => pc[p] \in WriteSectionLabels
        /\ p \in readers => pc[p] \in ReadSectionLabels

\* A list is about to write its response while an ingest holds the write
\* lock and a clear is about to log and respond.
C28_Witness ==
    /\ pc[1] = "list_respond" /\ 1 \notin readers
    /\ pc[2] = "store_append" /\ writer = {2}
    /\ pc[3] = "clear_respond"

----------------------------------------------------------------------------
\* Concurrent requests under fair scheduling (LiveSpec).

LockLabels == {"store_lock", "clear_lock", "list_rlock", "stats_rlock"}

\* C29: a goroutine that is not serving a request holds no lock, a goroutine
\* that asks for the lock does not hold it already, and every started
\* ingest, list, stats and clear eventually completes.
C29_Termination ==
    /\ [](\A p \in LiveProcs :
            /\ pc[p] = "idle" => p \notin writer \cup readers
            /\ pc[p] \in LockLabels => p \notin writer \cup readers)
    /\ \A p \in LiveProcs : (pc[p] # "idle") ~> (pc[p] = "idle")

\* A clear waits for the lock that an ingest holds for writing.
C29_Witness ==
    /\ writer = {1} /\ pc[1] = "store_trim"
    /\ pc[2] = "clear_lock" /\ 2 \notin writer

----------------------------------------------------------------------------
\* The list filter, one request after another (SeqSpec).

\* C30: a list with an absent or empty tenant filter returns the newest
\* limit retained records whatever their tenant_key, absent and empty ones
\* included; the empty filter is not a value that records are matched against.
C30_EmptyFilterNoFiltering ==
    \A p \in Procs :
        (pc[p] = "list_respond" /\ local[p].tenantFilter = "") =>
            ListResponse(p).events =
                SubSeq(Reverse(stored), 1, Min(local[p].limit, Len(stored)))

\* The window holds records with an absent, an empty and a non-empty
\* tenant_key, and the list without a filter returns all three, newest first.
C30_Witness ==
    /\ pc[1] = "list_respond" /\ local[1].tenantFilter = ""
    /\ Len(stored) = 3
    /\ {stored[i].tenant : i \in DOMAIN stored} = {<<>>, <<"">>, <<"t1">>}
    /\ ListResponse(1).events = Reverse(stored)

----------------------------------------------------------------------------
\* The counters under concurrent requests (Spec).

\* A goroutine executes the clear statement at the given label.
ClearStoreAt(label) == \E p \in Procs : pc[p] = label /\ pc'[p] # pc[p]

\* C31: across every step of every interleaving each of totalReceived,
\* totalAllowed and totalDenied is non-decreasing, except for the step of a
\* clear that stores 0 in that very counter.
C31_CounterMonotonicity ==
    [][/\ totalReceived' < totalReceived =>
             (ClearStoreAt("clear_storeReceived") /\ totalReceived' = 0)
       /\ totalAllowed' < totalAllowed =>
             (ClearStoreAt("clear_storeAllowed") /\ totalAllowed' = 0)
       /\ totalDenied' < totalDenied =>
             (ClearStoreAt("clear_storeDenied") /\ totalDenied' = 0)]_vars

\* A clear has reset totalReceived and not yet totalAllowed, which an earlier
\* ingest raised, while another ingest is about to add to totalReceived.
C31_Witness ==
    /\ pc[1] = "clear_storeAllowed" /\ totalReceived = 0 /\ totalAllowed > 0
    /\ pc[2] = "pub_addReceived" /\ local[2].count > 0

----------------------------------------------------------------------------
\* Callers that go away (CancelSpec).

\* The goroutine takes a step of its handler.
Moves(p) == pc'[p] # pc[p]

\* C32: an ingest whose caller has cancelled or abandoned the request is not
\* stopped: it still appends its whole batch to the window, still adds the
\* batch's count, allowed and denied amounts to the three counters, leaves
\* the handler only through its response, and does reach that response.
C32_NoCancellation ==
    /\ [][\A p \in LiveProcs :
            (InPublish(p) /\ Cancelled(p) /\ Moves(p)) =>
                /\ pc[p] = "store_append" =>
                      /\ stored' = stored \o Tag(Len(sizes) + 1, local[p].sent)
                      /\ log' = log \o Tag(Len(sizes) + 1, local[p].sent)
                /\ pc[p] = "pub_addReceived" =>
                      totalReceived' = totalReceived + Len(local[p].sent)
                /\ pc[p] = "pub_addAllowed" =>
                      totalAllowed' = totalAllowed + AllowedIn(local[p].sent)
                /\ pc[p] = "pub_addDenied" =>
                      totalDenied' = totalDenied + DeniedIn(local[p].sent)
                /\ pc'[p] = "idle" => pc[p] = "pub_respond"]_vars
    /\ \A p \in LiveProcs :
          (InPublish(p) /\ Cancelled(p) /\ pc[p] = "store_lock") ~> (pc[p] = "store_trim")
    /\ \A p \in LiveProcs :
          (InPublish(p) /\ Cancelled(p)) ~> (pc[p] = "pub_respond")

\* After a clear, an ingest of two records whose caller went away has
\* nevertheless stored its batch and added to the three counters.
C32_Witness ==
    /\ pc[2] = "pub_respond" /\ Cancelled(2) /\ Len(local[2].sent) = 2
    /\ clearRan /\ stored = Tag(1, local[2].sent)
    /\ totalReceived = 2 /\ totalAllowed = 1 /\ totalDenied = 1

----------------------------------------------------------------------------
\* The two variants side by side (EquivSpec).  One client sends every request
\* to an HTTP service and to a gRPC service.  The HTTP service is the store of
\* the variables; the gRPC service is a second instance whose fields are
\* kept in slot TwinSlot of local, which no goroutine of this specification
\* uses, and whose handlers run as one step each (it has one caller).

TwinSlot == 2

\* NewEventService of the gRPC variant.
TwinInit ==
    [op |-> "twin", events |-> <<>>,
     totalReceived |-> 0, totalAllowed |-> 0, totalDenied |-> 0,
     applied |-> 0, resp |-> <<>>]

Twin == IF local[TwinSlot].op = "twin" THEN local[TwinSlot] ELSE TwinInit

\* The same event as a protobuf message: a string field has no absent value.
ToProto(ev) == [ev EXCEPT !.tenant = <<TenantOf(ev)>>]

ToProtoAll(s) == [i \in 1..Len(s) |-> ToProto(s[i])]

\* HandleListEvents of the gRPC variant: TenantKey is a string.
RECURSIVE GrpcListLoop(_, _, _, _, _)
GrpcListLoop(s, i, result, tenantFilter, limit) ==
    IF i >= 1 /\ Len(result) < limit
    THEN IF tenantFilter # "" /\ s[i].tenant[1] # tenantFilter
         THEN GrpcListLoop(s, i - 1, result, tenantFilter, limit)
         ELSE GrpcListLoop(s, i - 1, Append(result, s[i]), tenantFilter, limit)
    ELSE result

GrpcListEvents(s, tenantFilter, limit) == GrpcListLoop(s, Len(s), <<>>, tenantFilter, limit)

\* PublishEvents: convert, classify, store, add, return.
GrpcPublishOn(t, id, batch) ==
    LET converted == [i \in 1..Len(batch) |-> Convert(batch[i])]
    IN  [t EXCEPT !.events = TrimToMax(AppendBatch(@, Tag(id, converted))),
                  !.totalReceived = AtomicAdd(@, Len(batch)),
                  !.totalAllowed = AtomicAdd(@, CountAllowed(batch)),
                  !.totalDenied = AtomicAdd(@, CountDenied(batch)),
                  !.resp = [accepted |-> Len(batch), err |-> NilError]]

GrpcListOn(t, tenantFilter, limitStr) ==
    [t EXCEPT !.resp = [code |-> StatusOK,
                        events |-> GrpcListEvents(t.events, tenantFilter,
                                                  ParseLimit(limitStr))]]

GrpcStatsOn(t) ==
    [t EXCEPT !.resp = [code |-> StatusOK,
                        total_received |-> t.totalReceived,
                        total_allowed |-> t.totalAllowed,
                        total_denied |-> t.totalDenied,
                        stored_events |-> Len(t.events)]]

GrpcClearOn(t) ==
    [t EXCEPT !.events = <<>>,
              !.totalReceived = 0, !.totalAllowed = 0, !.totalDenied = 0,
              !.resp = [code |-> StatusNoContent]]

\* The gRPC service has served every request the HTTP service was sent.
TwinSynced == Twin.applied = opsStarted

\* The request the HTTP handler of p is about to answer is served by the
\* gRPC service.
TwinApply(p) ==
    /\ pc[p] \in RespondLabels /\ ~TwinSynced
    /\ LET served ==
             CASE pc[p] = "pub_respond" ->
                      GrpcPublishOn(Twin, Len(sizes), ToProtoAll(local[p].sent))
               [] pc[p] = "list_respond" ->
                      GrpcListOn(Twin, local[p].tenantFilter, local[p].limitStr)
               [] pc[p] = "stats_respond" -> GrpcStatsOn(Twin)
               [] pc[p] = "clear_respond" -> GrpcClearOn(Twin)
       IN  local' = [local EXCEPT ![TwinSlot] = [served EXCEPT !.applied = opsStarted]]
    /\ UNCHANGED <<shared, pc, opsStarted, log, sizes, clearRan>>
    /\ Observe

\* The batches of the tests with every kind of tenant key.
EquivBatchInputs ==
    ProtoBatchInputs \cup {WithTenant(b, tk) : b \in ProtoBatchInputs, tk \in SeqTenantInputs}

EquivNext ==
    \E p \in SeqProcs :
        \/ PublishStartWithin(p, SeqMaxOps, EquivBatchInputs)
        \/ StoreLock(p)
        \/ StoreAppend(p)
        \/ StoreTrim(p)
        \/ StoreUnlock(p)
        \/ PublishAddReceived(p)
        \/ PublishAddAllowed(p)
        \/ PublishAddDenied(p)
        \/ ListStartWithin(p, SeqMaxOps, TenantFilterInputs, SeqLimitStrInputs)
        \/ ListRLock(p)
        \/ ListScan(p)
        \/ ListRUnlock(p)
        \/ StatsStartWithin(p, SeqMaxOps)
        \/ StatsRLock(p)
        \/ StatsLen(p)
        \/ StatsRUnlock(p)
        \/ StatsLoadReceived(p)
        \/ StatsLoadAllowed(p)
        \/ StatsLoadDenied(p)
        \/ ClearStartWithin(p, SeqMaxOps)
        \/ ClearLock(p)
        \/ ClearTruncate(p)
        \/ ClearUnlock(p)
        \/ ClearStoreReceived(p)
        \/ ClearStoreAllowed(p)
        \/ ClearStoreDenied(p)
        \/ TwinApply(p)
        \/ TwinSynced /\ PublishRespond(p)
        \/ TwinSynced /\ ListRespond(p)
        \/ TwinSynced /\ StatsRespond(p)
        \/ TwinSynced /\ ClearRespond(p)

EquivSpec == Init /\ [][EquivNext]_vars

\* C33: for every sequence of ingest, list(filter, limit), stats and clear
\* sent to both variants, each request gets the same answer from both - the
\* same accepted count, the same stats, the same list records in the same
\* order - and the two stores hold the same window and counters, an absent
\* tenant_key of the HTTP variant standing for the empty string of the gRPC
\* variant.
C33_TransportEquivalence ==
    \A p \in SeqProcs :
        (pc[p] \in RespondLabels /\ TwinSynced) =>
            /\ pc[p] = "pub_respond" =>
                  PublishResponse(p).accepted = Twin.resp.accepted
            /\ pc[p] = "list_respond" =>
                  /\ ListResponse(p).code = Twin.resp.code
                  /\ ToProtoAll(ListResponse(p).events) = Twin.resp.events
            /\ pc[p] = "stats_respond" => StatsResponse(p) = Twin.resp
            /\ pc[p] = "clear_respond" => ClearResponse(p) = Twin.resp
            /\ ToProtoAll(stored) = Twin.events
            /\ <<totalReceived, totalAllowed, totalDenied>> =
                   <<Twin.totalReceived, Twin.totalAllowed, Twin.totalDenied>>

\* Both services answer a list filtered by t1 with one record, after two
\* ingests that overflowed the window and left a record without a tenant key
\* next to records of t1.
C33_Witness ==
    /\ pc[1] = "list_respond" /\ TwinSynced /\ local[1].tenantFilter = "t1"
    /\ Len(log) > maxStoredEvents
    /\ \E i \in DOMAIN stored : stored[i].tenant = <<>>
    /\ Len(Twin.resp.events) = 1
    /\ Twin.resp.events[1].tenant = <<"t1">>

----------------------------------------------------------------------------
\* More of the counters under concurrent requests (Spec).

\* C34: every record of a batch is counted once, as allowed or as denied by
\* its allowed flag: the amounts an ingest adds to totalAllowed and
\* totalDenied are the numbers of its allowed and denied records, and their
\* sum is the amount it adds to totalReceived, the length of the batch.
C34_BatchClassification ==
    /\ [](\A p \in Procs :
            InPublish(p) =>
                /\ local[p].allowed = AllowedIn(local[p].sent)
                /\ local[p].denied = DeniedIn(local[p].sent)
                /\ local[p].allowed + local[p].denied = local[p].count
                /\ local[p].count = Len(local[p].sent))
    /\ [][\A p \in Procs :
            (InPublish(p) /\ Moves(p)) =>
                /\ pc[p] = "pub_addReceived" =>
                      totalReceived' - totalReceived = local[p].count
                /\ pc[p] = "pub_addAllowed" =>
                      totalAllowed' - totalAllowed = local[p].allowed
                /\ pc[p] = "pub_addDenied" =>
                      totalDenied' - totalDenied = local[p].denied]_vars

\* Two ingests add to the counters at the same time: one has added its
\* received and allowed amounts, the other only its received amount.
C34_Witness ==
    /\ pc[1] = "pub_addDenied" /\ local[1].allowed = 1 /\ local[1].denied = 1
    /\ pc[2] = "pub_addAllowed" /\ local[2].allowed = 0 /\ local[2].denied = 1
    /\ totalReceived = 3 /\ totalAllowed = 1 /\ totalDenied = 0

----------------------------------------------------------------------------
\* The read operations.

ReadOps == {"list", "stats", "storedEvents"}

\* The goroutine takes a step of a list, a stats or a StoredEvents call,
\* its first step and its last included.
ReadStep(p) == Moves(p) /\ (local[p].op \in ReadOps \/ local'[p].op \in ReadOps)

\* C35: no step of list, stats or StoredEvents changes the window (length,
\* contents, order, or the array behind it) or any of the three counters,
\* whatever the filter and the limit; the state reads leave behind is the
\* state they found.
C35_ReadsHaveNoEffect ==
    [][\A p \in Procs :
          ReadStep(p) =>
              UNCHANGED <<stored, arr, base, totalReceived, totalAllowed, totalDenied>>]_vars

\* After one ingest of two records, two read requests have been served and a
\* third, StoredEvents, holds its copy; window and counters are as the ingest
\* left them.
C35_Witness ==
    /\ pc[1] = "snap_held" /\ opsStarted = 4
    /\ ~clearRan /\ Len(sizes) = 1 /\ sizes[1] = 2
    /\ Len(stored) = 2 /\ Values(local[1].out) = stored
    /\ totalReceived = 2 /\ totalAllowed = 1 /\ totalDenied = 1

----------------------------------------------------------------------------
\* Stats beside ingests when no clear runs (StaleSpec).

\* Ingests in flight that have appended their batch, and those that have not.
AppendedInFlight ==
    {p \in Procs : InPublish(p) /\ (InStore(p) \/ AfterStore(p)) /\ pc[p] # "store_append"}

WaitingInFlight == {p \in Procs : InPublish(p) /\ pc[p] \in {"store_lock", "store_append"}}

RECURSIVE SumOver(_, _)
SumOver(f, S) ==
    IF S = {} THEN 0
    ELSE LET p == CHOOSE q \in S : TRUE IN f[p] + SumOver(f, S \ {p})

CountOf == [p \in Procs |-> IF InPublish(p) THEN local[p].count ELSE 0]
AllowedOf == [p \in Procs |-> IF InPublish(p) THEN local[p].allowed ELSE 0]
DeniedOf == [p \in Procs |-> IF InPublish(p) THEN local[p].denied ELSE 0]

\* Totals of the ingests that have completed (responded), as
\* <<received, allowed, denied>>: everything appended but what is in flight.
CompletedTotals ==
    <<Len(log) - SumOver(CountOf, AppendedInFlight),
      AllowedIn(log) - SumOver(AllowedOf, AppendedInFlight),
      DeniedIn(log) - SumOver(DeniedOf, AppendedInFlight)>>

\* Totals of the ingests that have started.
StartedTotals ==
    <<Len(log) + SumOver(CountOf, WaitingInFlight),
      AllowedIn(log) + SumOver(AllowedOf, WaitingInFlight),
      DeniedIn(log) + SumOver(DeniedOf, WaitingInFlight)>>

\* HandleStats is invoked; history only: the totals of the ingests completed
\* by then are noted.
StatsStartNoting(p, maxOps) ==
    /\ CanStartWithin(p, maxOps)
    /\ local' = [local EXCEPT ![p] =
                    [op |-> "stats", n |-> 0, received |-> 0, allowed |-> 0, denied |-> 0,
                     completedAtStart |-> CompletedTotals]]
    /\ opsStarted' = opsStarted + 1
    /\ Goto(p, "stats_rlock")
    /\ UNCHANGED <<shared, log, sizes, clearRan>>
    /\ Observe

StaleNext ==
    \E p \in Procs :
        \/ PublishStartWithin(p, MaxOps, BatchInputs)
        \/ StoreLock(p)
        \/ StoreAppend(p)
        \/ StoreTrim(p)
        \/ StoreUnlock(p)
        \/ PublishAddReceived(p)
        \/ PublishAddAllowed(p)
        \/ PublishAddDenied(p)
        \/ PublishRespond(p)
        \/ StatsStartNoting(p, MaxOps)
        \/ StatsRLock(p)
        \/ StatsLen(p)
        \/ StatsRUnlock(p)
        \/ StatsLoadReceived(p)
        \/ StatsLoadAllowed(p)
        \/ StatsLoadDenied(p)
        \/ StatsRespond(p)

StaleSpec == Init /\ [][StaleNext]_vars

\* C36: with no clear, the total_received a stats call returns is at least
\* the total size of the ingests that had completed when the call began and
\* at most the total size of the ingests that had started when it finishes;
\* likewise total_allowed and total_denied.
C36_BoundedStaleness ==
    \A p \in Procs :
        pc[p] = "stats_respond" =>
            /\ local[p].completedAtStart[1] <= StatsResponse(p).total_received
            /\ StatsResponse(p).total_received <= StartedTotals[1]
            /\ local[p].completedAtStart[2] <= StatsResponse(p).total_allowed
            /\ StatsResponse(p).total_allowed <= StartedTotals[2]
            /\ local[p].completedAtStart[3] <= StatsResponse(p).total_denied
            /\ StatsResponse(p).total_denied <= StartedTotals[3]

\* A stats call that began after one ingest of two records had completed
\* answers while a second ingest has stored its batch and added it to
\* totalReceived only: it reports more than the completed ingests hold.
C36_Witness ==
    /\ pc[1] = "stats_respond" /\ local[1].completedAtStart = <<2, 1, 1>>
    /\ StatsResponse(1).total_received = 4 /\ StatsResponse(1).total_allowed = 1
    /\ pc[2] = "pub_addAllowed" /\ local[2].count = 2
    /\ StartedTotals = <<4, 2, 2>>

----------------------------------------------------------------------------
\* The sign of the counters (Spec).

\* C37: in every reachable state, under any interleaving of ingests and
\* clears, totalReceived, totalAllowed and totalDenied are each >= 0, and so
\* is every amount an ingest is about to add.
C37_CountersNonNegative ==
    /\ totalReceived >= 0 /\ totalAllowed >= 0 /\ totalDenied >= 0
    /\ \A p \in Procs :
          InPublish(p) => local[p].count >= 0 /\ local[p].allowed >= 0 /\ local[p].denied >= 0

\* A clear has stored 0 in totalReceived and totalAllowed while an ingest that
\* added before the clear leaves totalDenied positive, and another ingest is
\* about to add.
C37_Witness ==
    /\ pc[1] = "clear_storeDenied" /\ totalReceived = 0 /\ totalAllowed = 0 /\ totalDenied > 0
    /\ \E p \in Procs : pc[p] = "pub_addReceived" /\ local[p].count > 0

====
